---- MODULE Spec2Model ----
(***************************************************************************)
(* A model of the parasocial memory core: the key manager and the cipher   *)
(* of src/src/lib/crypto.ts, the embedding worker of                       *)
(* src/src/workers/memory.worker.ts and the memory store of                *)
(* src/src/lib/memory.ts, with the memory bank's listing that shares its   *)
(* database, and the chat page with its session store (same file, lines    *)
(* 89-691).                                                                *)
(*                                                                         *)
(* Every asynchronous function is cut at its await points: one action per  *)
(* stretch of code that runs without suspension on the event loop.         *)
(***************************************************************************)
EXTENDS Integers, Sequences, FiniteSets, TLC

VARIABLES
    \* ---- key manager (crypto.ts, getOrCreateKey)
    slot,           \* localStorage[KEY_NAME]: a base64 text, <<>> when absent
    keyCalls,       \* the getOrCreateKey calls of this process
    generateCount,  \* number of keys crypto.subtle.generateKey has produced
    slotReads,      \* number of localStorage.getItem calls made
    slotWrites,     \* number of localStorage.setItem calls that stored a value
    nextKeyObj,     \* identity of the next CryptoKey object created
    \* ---- embedding worker (memory.worker.ts)
    instance,       \* PipelineSingleton.instance: "null" or "model"
    loadsStarted,   \* number of pipeline(task, model) calls made
    handlers,       \* the message listener's run for each request id
    toWorker,       \* messages posted to the worker, not yet delivered
    toCaller,       \* messages posted by the worker, not yet delivered
    replies,        \* per request id, the terminal messages posted with it
    progressPosted, \* number of 'progress' messages posted
    \* ---- caller of the embedding worker
    pending,        \* the pending-request table: ids awaiting a reply
    settled,        \* per request id, the outcomes its waiter was given
    cancelled,      \* ids whose caller gave up waiting
    nextRequestId,  \* the next request id the caller generates
    \* ---- cipher (crypto.ts, encryptData / decryptData)
    cryptoPc,       \* where the encrypt-then-decrypt run stands
    encCall,        \* the encryptData call: its arguments, nonce and result
    decCall,        \* the decryptData call: its arguments and outcome
    \* ---- memory store (memory.ts, MemoryManager)
    database,       \* IndexedDB database 'parasocial-memory': "absent",
                    \* "empty" (version 1, no object store) or "ready"
    entries,        \* the records of object store 'entries', keyed by id
    memCalls,       \* the MemoryManager calls of this process
    now,            \* the last value Date.now() gave
    \* ---- keyword extractor (memory.ts, extractKeywords) on its own
    kwCall,         \* one extractKeywords call: its text and its result
    \* ---- chat (memory.ts 89-691: App and useChatStore)
    sessions,         \* the store's sessions, the newest first
    currentSessionId, \* the store's currentSessionId, 0 for null
    apiKey,           \* whether the store holds an apiKey
    sessionsCreated,  \* number of sessions createSession has made
    loading,          \* the component's loading flag
    useSearch,        \* the component's useSearch flag
    sends,            \* the handleSendMessage runs of this page
    \* ---- device-code sign-in (part_000, CopilotAuth)
    modal,            \* the modal: "hidden", "open", "closedByUser", "closedOnSuccess"
    deviceRequests,   \* device-code requests of initiateAuth in flight
    authError,        \* whether the component's error state holds a text
    polling,          \* the component's polling flag
    timers,           \* setTimeout(checkToken, ...) timers not yet fired
    tokenRequests,    \* token requests of checkToken in flight
    pollsMade,        \* number of token requests made
    keysStored,       \* number of setApiKey calls made by checkToken
    closeCalls,       \* number of onClose calls
    \* ---- network helpers (search.ts)
    sseCall,          \* one streamCopilotResponse call, from its first read
    searchCall        \* one performSearch call

keyVars == <<slot, keyCalls, generateCount, slotReads, slotWrites, nextKeyObj>>

workerVars ==
    <<instance, loadsStarted, handlers, toWorker, toCaller, replies,
      progressPosted>>

callerVars == <<pending, settled, cancelled, nextRequestId>>

cryptoVars == <<cryptoPc, encCall, decCall>>

storeVars == <<database, entries, memCalls, now>>

keywordVars == <<kwCall>>

chatVars ==
    <<sessions, currentSessionId, apiKey, sessionsCreated, loading, useSearch,
      sends>>

authVars ==
    <<modal, deviceRequests, authError, polling, timers, tokenRequests,
      pollsMade, keysStored, closeCalls>>

netVars == <<sseCall, searchCall>>

vars ==
    <<keyVars, workerVars, callerVars, cryptoVars, storeVars, keywordVars,
      chatVars, authVars, netVars>>

\* What the actions of one component leave alone.
notKey ==
    <<workerVars, callerVars, cryptoVars, storeVars, keywordVars, chatVars, authVars,
      netVars>>
notEmbed ==
    <<keyVars, cryptoVars, storeVars, keywordVars, chatVars, authVars,
      netVars>>
notCrypto ==
    <<keyVars, workerVars, callerVars, storeVars, keywordVars, chatVars, authVars,
      netVars>>
notStore ==
    <<keyVars, workerVars, callerVars, cryptoVars, keywordVars, chatVars, authVars,
      netVars>>
notKeyword ==
    <<keyVars, workerVars, callerVars, cryptoVars, storeVars, chatVars, authVars,
      netVars>>
notChat ==
    <<keyVars, workerVars, callerVars, cryptoVars, storeVars, keywordVars,
      authVars, netVars>>
\* What the sign-in leaves alone, the store's apiKey apart.
notAuth ==
    <<keyVars, workerVars, callerVars, cryptoVars, storeVars, keywordVars,
      sessions, currentSessionId, sessionsCreated, loading, useSearch, sends,
      netVars>>
notNet ==
    <<keyVars, workerVars, callerVars, cryptoVars, storeVars, keywordVars,
      chatVars, authVars>>

(***************************************************************************)
(* Bounds of the model.                                                    *)
(***************************************************************************)
KeyCallers == 3     \* getOrCreateKey calls made in one process
NumKeys == 2        \* distinct key materials generateKey may draw
MaxRequests == 2    \* embedding requests sent to one worker
MaxProgress == 1    \* 'progress' messages posted while a model loads
MaxPlainLen == 2    \* UTF-16 code units of a text given to encryptData
NumIvs == 2         \* distinct nonces getRandomValues may draw
MaxCalls == 2       \* MemoryManager calls made in one process
NumIds == 2         \* distinct values crypto.randomUUID may give
MaxTime == 1        \* values Date.now() may give, from 0
MaxPieces == 3      \* pieces of a text given to extractKeywords on its own
MaxStored == 6      \* records a store holds when a retrieval starts
MaxSessions == 2    \* sessions createSession makes
MaxChunks == 1      \* chunks one reply stream gives
MaxMessages == 2    \* messages the store holds when its functions are called on their own
MaxDdg == 3         \* results the DuckDuckGo backend gives
MaxLines == 2       \* lines of the response streamCopilotResponse reads
MaxPolls == 8       \* token requests the sign-in makes

(***************************************************************************)
(* Program constants.                                                      *)
(***************************************************************************)
KeyLengthBits == 256

KeyBytes == KeyLengthBits \div 8

IvBytes == 12

DefaultImportance == 5

(***************************************************************************)
(* btoa(String.fromCharCode(...bytes)) and                                 *)
(* Uint8Array.from(atob(text), c => c.charCodeAt(0)).                      *)
(* A base64 text is the sequence of its characters' alphabet indexes       *)
(* 0..63, with 64 standing for the padding character '='.                  *)
(***************************************************************************)
Pad == 64

RECURSIVE btoa(_)
btoa(bytes) ==
    IF Len(bytes) = 0 THEN <<>>
    ELSE IF Len(bytes) = 1 THEN
        <<bytes[1] \div 4, (bytes[1] % 4) * 16, Pad, Pad>>
    ELSE IF Len(bytes) = 2 THEN
        <<bytes[1] \div 4,
          (bytes[1] % 4) * 16 + (bytes[2] \div 16),
          (bytes[2] % 16) * 4,
          Pad>>
    ELSE
        <<bytes[1] \div 4,
          (bytes[1] % 4) * 16 + (bytes[2] \div 16),
          (bytes[2] % 16) * 4 + (bytes[3] \div 64),
          bytes[3] % 64>>
        \o btoa(SubSeq(bytes, 4, Len(bytes)))

RECURSIVE atob(_)
atob(text) ==
    IF Len(text) < 4 THEN <<>>
    ELSE
        LET b1 == text[1] * 4 + (text[2] \div 16)
            b2 == (text[2] % 16) * 16 + (text[3] \div 4)
            b3 == (text[3] % 4) * 64 + text[4]
        IN  IF text[3] = Pad THEN <<b1>>
            ELSE IF text[4] = Pad THEN <<b1, b2>>
            ELSE <<b1, b2, b3>> \o atob(SubSeq(text, 5, Len(text)))

(***************************************************************************)
(* The key materials crypto.subtle.generateKey may produce: NumKeys        *)
(* 256-bit values out of the 2^256 it draws from.                          *)
(***************************************************************************)
KeySample(s) == [i \in 1..KeyBytes |-> (s * 37 * i + 11 * s + 200) % 256]

RawKeys == {KeySample(s) : s \in 1..NumKeys}

NoKeyObj == [obj |-> 0, raw |-> <<>>]

IdleKeyCall ==
    [pc |-> "idle", stored |-> <<>>, rawKey |-> <<>>, key |-> NoKeyObj,
     late |-> FALSE]

\* if (stored): null and the empty string are both falsy
Truthy(stored) == Len(stored) > 0

KeyInit ==
    /\ slot \in {<<>>} \cup {btoa(k) : k \in RawKeys}
    /\ keyCalls = [c \in 1..KeyCallers |-> IdleKeyCall]
    /\ generateCount = 0
    /\ slotReads = 0
    /\ slotWrites = 0
    /\ nextKeyObj = 1

\* The key manager on a cold start, never called.
KeyQuiet == KeyInit /\ slot = <<>>

\* crypto.ts 5-8 and 10: getItem, then importKey or generateKey is called
\* and the function suspends. late records that the call started after
\* another call of this process had returned its key.
KeyStart(c) ==
    /\ keyCalls[c].pc = "idle"
    /\ slotReads' = slotReads + 1
    /\ LET stored == slot
           late == \E d \in 1..KeyCallers : keyCalls[d].pc = "returned"
       IN  IF Truthy(stored)
           THEN keyCalls' = [keyCalls EXCEPT ![c] =
                    [pc |-> "importing", stored |-> stored,
                     rawKey |-> atob(stored), key |-> NoKeyObj, late |-> late]]
           ELSE keyCalls' = [keyCalls EXCEPT ![c] =
                    [pc |-> "generating", stored |-> stored,
                     rawKey |-> <<>>, key |-> NoKeyObj, late |-> late]]
    /\ UNCHANGED <<slot, generateCount, slotWrites, nextKeyObj>>
    /\ UNCHANGED notKey

\* crypto.ts 8: importKey resolves and the call returns the imported key.
KeyImported(c) ==
    /\ keyCalls[c].pc = "importing"
    /\ keyCalls' = [keyCalls EXCEPT ![c].pc = "returned",
                                    ![c].key = [obj |-> nextKeyObj,
                                                raw |-> keyCalls[c].rawKey]]
    /\ nextKeyObj' = nextKeyObj + 1
    /\ UNCHANGED <<slot, generateCount, slotReads, slotWrites>>
    /\ UNCHANGED notKey

\* crypto.ts 10-15: generateKey resolves with a random key; exportKey is
\* called and the function suspends again.
KeyGenerated(c) ==
    /\ keyCalls[c].pc = "generating"
    /\ \E k \in RawKeys :
        keyCalls' = [keyCalls EXCEPT ![c].pc = "exporting",
                                     ![c].key = [obj |-> nextKeyObj, raw |-> k]]
    /\ nextKeyObj' = nextKeyObj + 1
    /\ generateCount' = generateCount + 1
    /\ UNCHANGED <<slot, slotReads, slotWrites>>
    /\ UNCHANGED notKey

\* SetItemStores gone wrong: the key is returned without being persisted.
SetItemStores_Skipped(c, text) ==
    /\ UNCHANGED <<slot, slotWrites>>
    /\ keyCalls' = [keyCalls EXCEPT ![c].pc = "returned"]

\* localStorage.setItem(KEY_NAME, text): stores the text, or throws (quota
\* exceeded, storage disabled) and stores nothing.
SetItemStores(c, text) ==
    /\ slot' = text
    /\ slotWrites' = slotWrites + 1
    /\ keyCalls' = [keyCalls EXCEPT ![c].pc = "returned"]

SetItemThrows(c) ==
    /\ keyCalls' = [keyCalls EXCEPT ![c].pc = "failed", ![c].key = NoKeyObj]
    /\ UNCHANGED <<slot, slotWrites>>

\* crypto.ts 15-18: exportKey resolves; the exported bytes are encoded and
\* written to the slot, and the generated key is returned.
KeyExported(c) ==
    /\ keyCalls[c].pc = "exporting"
    /\ LET exported == keyCalls[c].key.raw
           exportedStr == btoa(exported)
       IN  \/ SetItemStores(c, exportedStr)
           \/ SetItemThrows(c)
    /\ UNCHANGED <<generateCount, slotReads, nextKeyObj>>
    /\ UNCHANGED notKey

KeyNext ==
    \E c \in 1..KeyCallers :
        \/ KeyStart(c)
        \/ KeyImported(c)
        \/ KeyGenerated(c)
        \/ KeyExported(c)

(***************************************************************************)
(* Claims about the key manager.                                           *)
(***************************************************************************)
KeyReturned(c) == keyCalls[c].pc = "returned"

\* C2 (as claimed): for any number of getOrCreateKey calls, overlapping ones
\* included, exactly one key is ever generated, the persisted slot is
\* written at most once, and every call returns the key that is persisted.
C2_SingleKey ==
    /\ generateCount <= 1
    /\ slotWrites <= 1
    /\ \A c \in 1..KeyCallers :
        KeyReturned(c) => btoa(keyCalls[c].key.raw) = slot

\* A call of c made a step that started after another call had returned.
LateStep(c) == keyCalls'[c].late /\ keyCalls'[c] # keyCalls[c]

EmbedTexts == {"hiking in Colorado", "sushi"}

RequestIds == 1..MaxRequests

\* Array.from(output.data) of extractor(text, {pooling, normalize}): the
\* vector the model gives for the text.
Embedding(text) == <<"embedding", text>>

NoHandler == [pc |-> "none", text |-> ""]

WorkerInit ==
    /\ instance = "null"
    /\ loadsStarted = 0
    /\ handlers = [id \in RequestIds |-> NoHandler]
    /\ toWorker = <<>>
    /\ toCaller = <<>>
    /\ replies = [id \in RequestIds |-> <<>>]
    /\ progressPosted = 0

CallerInit ==
    /\ pending = {}
    /\ settled = [id \in RequestIds |-> <<>>]
    /\ cancelled = {}
    /\ nextRequestId = 1

\* self.postMessage({id, type, ...}) with type 'result' or 'error'.
PostReply(id, type, payload) ==
    /\ toCaller' = Append(toCaller, [id |-> id, type |-> type, payload |-> payload])
    /\ replies' = [replies EXCEPT ![id] = Append(@, [type |-> type, payload |-> payload])]

\* memory.worker.ts 21-26 and 14-16: the listener takes a message; for an
\* 'embed' message getInstance runs to its first await: pipeline() is called
\* when instance is null, otherwise the cached instance is returned and the
\* extractor is called.
WorkerOnMessage ==
    /\ toWorker # <<>>
    /\ LET msg == Head(toWorker)
       IN  /\ toWorker' = Tail(toWorker)
           /\ IF msg.type = "embed"
              THEN IF instance = "null"
                   THEN /\ loadsStarted' = loadsStarted + 1
                        /\ handlers' = [handlers EXCEPT ![msg.id] =
                                [pc |-> "loading", text |-> msg.text]]
                   ELSE /\ handlers' = [handlers EXCEPT ![msg.id] =
                                [pc |-> "inferring", text |-> msg.text]]
                        /\ UNCHANGED loadsStarted
              ELSE UNCHANGED <<loadsStarted, handlers>>
    /\ UNCHANGED <<instance, toCaller, replies, progressPosted>>
    /\ UNCHANGED <<callerVars, notEmbed>>

\* memory.worker.ts 26-28: the progress callback posts a message without id.
WorkerProgress(id) ==
    /\ handlers[id].pc = "loading"
    /\ progressPosted < MaxProgress
    /\ progressPosted' = progressPosted + 1
    /\ toCaller' = Append(toCaller, [id |-> 0, type |-> "progress", payload |-> "x"])
    /\ UNCHANGED <<instance, loadsStarted, handlers, toWorker, replies>>
    /\ UNCHANGED <<callerVars, notEmbed>>

\* memory.worker.ts 15-17 and 29: the pipeline() this request started
\* resolves: instance is assigned and the extractor is called.
LoadResolves(id) ==
    /\ instance' = "model"
    /\ handlers' = [handlers EXCEPT ![id].pc = "inferring"]
    /\ UNCHANGED <<toCaller, replies>>

\* memory.worker.ts 15 and 33-35: the pipeline() rejects; instance stays
\* null and the catch posts an error.
LoadRejects(id) ==
    /\ handlers' = [handlers EXCEPT ![id].pc = "done"]
    /\ PostReply(id, "error", "load failed")
    /\ UNCHANGED instance

WorkerLoaded(id) ==
    /\ handlers[id].pc = "loading"
    /\ \/ LoadResolves(id)
       \/ LoadRejects(id)
    /\ UNCHANGED <<loadsStarted, toWorker, progressPosted>>
    /\ UNCHANGED <<callerVars, notEmbed>>

\* memory.worker.ts 29-32: the extractor resolves and the result is posted.
InferResolves(id) ==
    /\ handlers' = [handlers EXCEPT ![id].pc = "done"]
    /\ PostReply(id, "result", Embedding(handlers[id].text))

\* InferRejects gone wrong: the failure is not caught, nothing is posted.
InferRejects_Uncaught(id) ==
    /\ handlers' = [handlers EXCEPT ![id].pc = "done"]
    /\ UNCHANGED <<toCaller, replies>>

\* memory.worker.ts 29 and 33-35: the extractor rejects (with an Error, whose
\* message the catch reads) and the catch posts an error.
InferRejects(id) ==
    /\ handlers' = [handlers EXCEPT ![id].pc = "done"]
    /\ PostReply(id, "error", "inference failed")

WorkerInferred(id) ==
    /\ handlers[id].pc = "inferring"
    /\ \/ InferResolves(id)
       \/ InferRejects(id)
    /\ UNCHANGED <<instance, loadsStarted, toWorker, progressPosted>>
    /\ UNCHANGED <<callerVars, notEmbed>>

WorkerNext ==
    \/ WorkerOnMessage
    \/ \E id \in RequestIds :
        \/ WorkerProgress(id)
        \/ WorkerLoaded(id)
        \/ WorkerInferred(id)

\* The caller sends {requestId, text}: a new id is entered in the
\* pending-request table and the request is posted to the worker.
EmbedRequest(text) ==
    /\ nextRequestId <= MaxRequests
    /\ pending' = pending \cup {nextRequestId}
    /\ toWorker' = Append(toWorker,
            [id |-> nextRequestId, type |-> "embed", text |-> text])
    /\ nextRequestId' = nextRequestId + 1
    /\ UNCHANGED <<settled, cancelled>>
    /\ UNCHANGED <<instance, loadsStarted, handlers, toCaller, replies,
                   progressPosted>>
    /\ UNCHANGED notEmbed

\* The caller stops waiting for a request: its entry leaves the table.
CallerCancel(id) ==
    /\ id \in pending
    /\ pending' = pending \ {id}
    /\ cancelled' = cancelled \cup {id}
    /\ UNCHANGED <<settled, nextRequestId, workerVars>>
    /\ UNCHANGED notEmbed

\* MatchAndRemove gone wrong: the waiter is settled without a table lookup.
MatchAndRemove_NoLookup(msg) ==
    IF msg.type \in {"result", "error"}
    THEN /\ pending' = pending \ {msg.id}
         /\ settled' = [settled EXCEPT ![msg.id] = Append(@, msg.type)]
    ELSE UNCHANGED <<pending, settled>>

\* A reply is matched by id against the table: a match settles the waiter
\* and removes the entry, anything else is dropped.
MatchAndRemove(msg) ==
    IF msg.type \in {"result", "error"} /\ msg.id \in pending
    THEN /\ pending' = pending \ {msg.id}
         /\ settled' = [settled EXCEPT ![msg.id] = Append(@, msg.type)]
    ELSE UNCHANGED <<pending, settled>>

\* The caller takes the next message the worker posted.
CallerOnMessage ==
    /\ toCaller # <<>>
    /\ toCaller' = Tail(toCaller)
    /\ MatchAndRemove(Head(toCaller))
    /\ UNCHANGED <<cancelled, nextRequestId>>
    /\ UNCHANGED <<instance, loadsStarted, handlers, toWorker, replies,
                   progressPosted>>
    /\ UNCHANGED notEmbed

CallerNext ==
    \/ \E text \in EmbedTexts : EmbedRequest(text)
    \/ \E id \in RequestIds : CallerCancel(id)
    \/ CallerOnMessage

EmbedNext == WorkerNext \/ CallerNext

(***************************************************************************)
(* Claims about the embedding worker and its caller.                       *)
(***************************************************************************)
\* C5 (as claimed): the model is loaded at most once per worker lifetime,
\* also when several 'embed' requests arrive before the first load has
\* finished.
C5_SingleLoad == loadsStarted <= 1

Sent(id) == id < nextRequestId

Answered(id) == handlers[id].pc = "done"

\* What the worker has posted for request id is exactly one terminal message
\* once its listener run has ended and nothing before; a result carries the
\* embedding of the request's own text.
OneTerminalReply(id) ==
    /\ Len(replies[id]) <= 1
    /\ Answered(id) <=> Len(replies[id]) = 1
    /\ \A i \in 1..Len(replies[id]) :
        /\ replies[id][i].type \in {"result", "error"}
        /\ replies[id][i].type = "result" =>
            replies[id][i].payload = Embedding(handlers[id].text)

\* C6: every 'embed' request sent to the worker is answered by exactly one
\* terminal reply carrying the request's own id, a result with the embedding
\* or an error, never both, whatever the interleaving of the requests.
C6_ExactlyOneReply ==
    /\ [](\A id \in RequestIds : OneTerminalReply(id))
    /\ \A id \in RequestIds : Sent(id) ~> Answered(id)

\* C6 witness: two requests were outstanding together (the model of the
\* first still loading when the second was taken) and both are answered,
\* one by a result and one by an error.
C6_Witness ==
    /\ loadsStarted >= 2
    /\ \E a, b \in RequestIds :
        /\ a # b
        /\ Answered(a) /\ replies[a][1].type = "result"
        /\ Answered(b) /\ replies[b][1].type = "error"

\* C7: each request of the pending-request table is settled at most once
\* and leaves the table when it is, and a reply whose id is not in the table
\* (its caller gave up, or a message without id) is dropped without effect.
C7_MatchAndRemoveOnce ==
    \A id \in RequestIds :
        /\ Len(settled[id]) <= 1
        /\ settled[id] # <<>> => id \notin pending
        /\ id \in cancelled => settled[id] = <<>>
        /\ id \in pending => id < nextRequestId /\ id \notin cancelled
        /\ settled[id] # <<>> => settled[id][1] = replies[id][1].type

\* C7 witness: one reply was matched and settled its request, and the reply
\* to a request whose caller had given up was delivered and dropped.
C7_Witness ==
    /\ toCaller = <<>>
    /\ \E a, b \in RequestIds :
        /\ settled[a] # <<>>
        /\ b \in cancelled /\ replies[b] # <<>>

(***************************************************************************)
(* The cipher (crypto.ts, encryptData and decryptData).                    *)
(*                                                                         *)
(* A JavaScript string is a sequence of UTF-16 code units. TextEncoder     *)
(* converts it to scalar values (an unpaired surrogate becomes U+FFFD) and *)
(* writes UTF-8; TextDecoder, built with its defaults, reads UTF-8 and     *)
(* removes a leading byte order mark U+FEFF.                               *)
(***************************************************************************)
LetterA == 97
EAcute == 233
HighSurrogate == 55357
LowSurrogate == 56832
ByteOrderMark == 65279
Replacement == 65533

CodeUnits == {LetterA, EAcute, HighSurrogate, LowSurrogate, ByteOrderMark}

IsHigh(u) == u \in 55296..56319

IsLow(u) == u \in 56320..57343

\* The scalar values of a string (USVString conversion).
RECURSIVE ToScalars(_)
ToScalars(units) ==
    IF units = <<>> THEN <<>>
    ELSE IF IsHigh(units[1]) /\ Len(units) >= 2 /\ IsLow(units[2]) THEN
        <<65536 + (units[1] - 55296) * 1024 + (units[2] - 56320)>>
        \o ToScalars(SubSeq(units, 3, Len(units)))
    ELSE IF IsHigh(units[1]) \/ IsLow(units[1]) THEN
        <<Replacement>> \o ToScalars(Tail(units))
    ELSE <<units[1]>> \o ToScalars(Tail(units))

Utf8Bytes(cp) ==
    IF cp < 128 THEN <<cp>>
    ELSE IF cp < 2048 THEN <<192 + (cp \div 64), 128 + (cp % 64)>>
    ELSE IF cp < 65536 THEN
        <<224 + (cp \div 4096), 128 + ((cp \div 64) % 64), 128 + (cp % 64)>>
    ELSE
        <<240 + (cp \div 262144), 128 + ((cp \div 4096) % 64),
          128 + ((cp \div 64) % 64), 128 + (cp % 64)>>

RECURSIVE Utf8OfScalars(_)
Utf8OfScalars(cps) ==
    IF cps = <<>> THEN <<>>
    ELSE Utf8Bytes(cps[1]) \o Utf8OfScalars(Tail(cps))

\* new TextEncoder().encode(data)
TextEncode(units) == Utf8OfScalars(ToScalars(units))

\* The scalar values of a UTF-8 byte sequence; a sequence cut short or a
\* stray byte gives U+FFFD.
RECURSIVE ScalarsOfUtf8(_)
ScalarsOfUtf8(bytes) ==
    IF bytes = <<>> THEN <<>>
    ELSE
        LET b == bytes[1]
            n == IF b < 128 THEN 1
                 ELSE IF b \in 192..223 THEN 2
                 ELSE IF b \in 224..239 THEN 3
                 ELSE IF b \in 240..247 THEN 4
                 ELSE 0
            c(i) == bytes[i] - 128
        IN  IF n = 0 \/ Len(bytes) < n
            THEN <<Replacement>> \o ScalarsOfUtf8(Tail(bytes))
            ELSE <<CASE n = 1 -> b
                     [] n = 2 -> (b - 192) * 64 + c(2)
                     [] n = 3 -> (b - 224) * 4096 + c(2) * 64 + c(3)
                     [] n = 4 -> (b - 240) * 262144 + c(2) * 4096
                                  + c(3) * 64 + c(4)>>
                 \o ScalarsOfUtf8(SubSeq(bytes, n + 1, Len(bytes)))

\* ignoreBOM is false by default: a leading U+FEFF is not part of the output.
StripBOM(cps) ==
    IF cps # <<>> /\ cps[1] = ByteOrderMark THEN Tail(cps) ELSE cps

RECURSIVE UnitsOfScalars(_)
UnitsOfScalars(cps) ==
    IF cps = <<>> THEN <<>>
    ELSE IF cps[1] >= 65536 THEN
        <<55296 + ((cps[1] - 65536) \div 1024),
          56320 + ((cps[1] - 65536) % 1024)>>
        \o UnitsOfScalars(Tail(cps))
    ELSE <<cps[1]>> \o UnitsOfScalars(Tail(cps))

\* new TextDecoder().decode(decrypted)
TextDecode(bytes) == UnitsOfScalars(StripBOM(ScalarsOfUtf8(bytes)))

RECURSIVE SeqsUpTo(_, _)
SeqsUpTo(S, n) ==
    IF n = 0 THEN {<<>>}
    ELSE LET shorter == SeqsUpTo(S, n - 1)
         IN  shorter \cup {Append(q, x) : q \in {r \in shorter : Len(r) = n - 1}, x \in S}

Plaintexts == SeqsUpTo(CodeUnits, MaxPlainLen)

\* The values crypto.getRandomValues(new Uint8Array(12)) may give: NumIvs
\* out of the 2^96.
IvSample(s) == [i \in 1..IvBytes |-> (s * 53 * i + 7 * s) % 256]

Ivs == {IvSample(s) : s \in 1..NumIvs}

(***************************************************************************)
(* AES-GCM as an ideal authenticated cipher: a ciphertext is the sealing   *)
(* of some bytes under one key and one nonce, and opens under exactly that *)
(* key and nonce; a ciphertext with any bit changed opens under none.      *)
(***************************************************************************)
\* crypto.subtle.encrypt({name: ALGO, iv}, key, bytes)
SubtleEncrypt(iv, key, bytes) ==
    [key |-> key, iv |-> iv, data |-> bytes, intact |-> TRUE]

\* A ciphertext with some of its bits changed.
Tampered(ct) == [ct EXCEPT !.intact = FALSE]

Authentic(ct, iv, key) == ct.intact /\ ct.key = key /\ ct.iv = iv

NoCall == [state |-> "none"]

CryptoInit ==
    /\ cryptoPc = "start"
    /\ encCall = NoCall
    /\ decCall = NoCall

\* crypto.ts 21-28: the text is encoded, a nonce is drawn and
\* crypto.subtle.encrypt is called; the function suspends.
EncryptData(data, key) ==
    /\ cryptoPc = "start"
    /\ \E iv \in Ivs :
        encCall' = [state |-> "encrypting", data |-> data, key |-> key,
                    iv |-> iv, bytes |-> TextEncode(data)]
    /\ cryptoPc' = "encrypting"
    /\ UNCHANGED decCall
    /\ UNCHANGED notCrypto

\* crypto.ts 24-29: encrypt resolves; {encrypted, iv} is returned.
EncryptDone ==
    /\ cryptoPc = "encrypting"
    /\ encCall' = [state |-> "returned", data |-> encCall.data,
                   key |-> encCall.key, iv |-> encCall.iv,
                   encrypted |-> SubtleEncrypt(encCall.iv, encCall.key, encCall.bytes)]
    /\ cryptoPc' = "encrypted"
    /\ UNCHANGED decCall
    /\ UNCHANGED notCrypto

\* crypto.ts 32-38: crypto.subtle.decrypt is called with the arguments
\* given; the function suspends.
DecryptData(encrypted, iv, key) ==
    /\ cryptoPc = "encrypted"
    /\ decCall' = [state |-> "decrypting", encrypted |-> encrypted,
                   iv |-> iv, key |-> key]
    /\ cryptoPc' = "decrypting"
    /\ UNCHANGED encCall
    /\ UNCHANGED notCrypto

\* crypto.ts 34-39: decrypt resolves and its bytes are decoded.
DecryptResolves ==
    /\ Authentic(decCall.encrypted, decCall.iv, decCall.key)
    /\ decCall' = [state |-> "returned", encrypted |-> decCall.encrypted,
                   iv |-> decCall.iv, key |-> decCall.key,
                   text |-> TextDecode(decCall.encrypted.data)]

\* crypto.ts 34: decrypt rejects (OperationError) and so does decryptData.
DecryptRejects ==
    /\ ~Authentic(decCall.encrypted, decCall.iv, decCall.key)
    /\ decCall' = [state |-> "failed", encrypted |-> decCall.encrypted,
                   iv |-> decCall.iv, key |-> decCall.key]

DecryptDone ==
    /\ cryptoPc = "decrypting"
    /\ \/ DecryptResolves
       \/ DecryptRejects
    /\ cryptoPc' = "decrypted"
    /\ UNCHANGED encCall
    /\ UNCHANGED notCrypto

\* decryptData is called on what encryptData returned, or on a changed
\* ciphertext, nonce or key.
DecryptCall ==
    /\ cryptoPc = "encrypted"
    /\ \E ct \in {encCall.encrypted, Tampered(encCall.encrypted)},
          iv \in Ivs, key \in RawKeys :
            DecryptData(ct, iv, key)

\* One encryptData call on any text and key, then one decryptData call.
CryptoNext ==
    \/ \E data \in Plaintexts, key \in RawKeys : EncryptData(data, key)
    \/ EncryptDone
    \/ DecryptCall
    \/ DecryptDone

(***************************************************************************)
(* Claims about the cipher.                                                *)
(***************************************************************************)
SameArguments ==
    /\ decCall.encrypted = encCall.encrypted
    /\ decCall.iv = encCall.iv
    /\ decCall.key = encCall.key

\* C8 (as claimed): for every plaintext p and key k, decryptData of the
\* ciphertext and nonce returned by encryptData(p, k), under k, returns p;
\* under another key, or with a changed ciphertext or nonce, it fails.
C8_RoundTrip ==
    cryptoPc = "decrypted" =>
        IF SameArguments
        THEN decCall.state = "returned" /\ decCall.text = encCall.data
        ELSE decCall.state = "failed"

(***************************************************************************)
(* The memory store (memory.ts, MemoryManager).                            *)
(*                                                                         *)
(* A text is the sequence of its UTF-16 code units, as for the cipher.     *)
(***************************************************************************)
\* "Hiking, hiking"
NoteHiking == <<72, 105, 107, 105, 110, 103, 44, 32, 104, 105, 107, 105, 110, 103>>

\* "which Sushi?"
NoteSushi == <<119, 104, 105, 99, 104, 32, 83, 117, 115, 104, 105, 63>>

Notes == {NoteHiking, NoteSushi}

Importances == {15}

Ids == 1..NumIds

\* String.prototype.toLowerCase, on the letters A-Z
ToLowerCase(text) ==
    [i \in 1..Len(text) |-> IF text[i] \in 65..90 THEN text[i] + 32 ELSE text[i]]

\* \w: a letter, a digit or the underscore
IsWordChar(u) == u \in (48..57) \cup (65..90) \cup {95} \cup (97..122)

\* \s: blank, tab, line feed, vertical tab, form feed, carriage return
IsSpace(u) == u \in {32} \cup (9..13)

\* .replace(/[^\w\s]/g, '')
RECURSIVE StripPunctuation(_)
StripPunctuation(text) ==
    IF text = <<>> THEN <<>>
    ELSE IF IsWordChar(text[1]) \/ IsSpace(text[1])
         THEN <<text[1]>> \o StripPunctuation(Tail(text))
         ELSE StripPunctuation(Tail(text))

\* .split(/\s+/): the pieces between the runs of white space; SplitFrom
\* carries the piece being read.
RECURSIVE SplitFrom(_, _)
SplitFrom(text, piece) ==
    IF text = <<>> THEN <<piece>>
    ELSE IF IsSpace(text[1]) THEN
        IF Len(text) >= 2 /\ IsSpace(text[2])
        THEN SplitFrom(Tail(text), piece)
        ELSE <<piece>> \o SplitFrom(Tail(text), <<>>)
    ELSE SplitFrom(Tail(text), Append(piece, text[1]))

SplitOnSpace(text) == SplitFrom(text, <<>>)

\* ['the', 'is', 'at', 'which', 'on', 'and', 'a', 'an', 'I', 'you']
Stopwords ==
    { <<116, 104, 101>>, <<105, 115>>, <<97, 116>>,
      <<119, 104, 105, 99, 104>>, <<111, 110>>, <<97, 110, 100>>, <<97>>,
      <<97, 110>>, <<73>>, <<121, 111, 117>> }

RECURSIVE KeepKeywords(_)
KeepKeywords(words) ==
    IF words = <<>> THEN <<>>
    ELSE IF Len(words[1]) > 3 /\ words[1] \notin Stopwords
         THEN <<words[1]>> \o KeepKeywords(Tail(words))
         ELSE KeepKeywords(Tail(words))

\* memory.ts 77-84
extractKeywords(text) ==
    KeepKeywords(SplitOnSpace(StripPunctuation(ToLowerCase(text))))

(***************************************************************************)
(* extractKeywords on its own: one call on a text made of a few pieces.    *)
(***************************************************************************)
\* "Hiking", "which", "the", "cafés" (with U+00E9), "up_to", " " and ", "
PieceHiking == <<72, 105, 107, 105, 110, 103>>
PieceWhich == <<119, 104, 105, 99, 104>>
PieceThe == <<116, 104, 101>>
PieceCafes == <<99, 97, 102, 233, 115>>
PieceUpTo == <<117, 112, 95, 116, 111>>
PieceSpace == <<32>>
PieceComma == <<44, 32>>

Pieces ==
    {PieceHiking, PieceWhich, PieceThe, PieceCafes, PieceUpTo, PieceSpace,
     PieceComma}

\* The texts made of at most n pieces
RECURSIVE TextsOf(_)
TextsOf(n) ==
    IF n = 0 THEN {<<>>}
    ELSE LET shorter == TextsOf(n - 1)
         IN  shorter \cup {t \o p : t \in shorter, p \in Pieces}

KeywordTexts == TextsOf(MaxPieces)

\* No extractKeywords call is followed.
KeywordQuiet == kwCall = [state |-> "none"]

\* extractKeywords has been called with a text.
KeywordInit ==
    kwCall \in {[state |-> "called", text |-> t] : t \in KeywordTexts}

\* memory.ts 77-84: the call returns.
ExtractKeywordsReturns ==
    /\ kwCall.state = "called"
    /\ kwCall' = [state |-> "returned", text |-> kwCall.text,
                  result |-> extractKeywords(kwCall.text)]
    /\ UNCHANGED notKeyword

KeywordNext == ExtractKeywordsReturns

IdleMemCall == [op |-> "none", pc |-> "idle"]

\* A fresh profile: the database does not exist yet.
StoreInit ==
    /\ database = "absent"
    /\ entries = {}
    /\ memCalls = [c \in 1..MaxCalls |-> IdleMemCall]
    /\ now = 0

HasKey(records, id) == \E e \in records : e.id = id

\* memory.ts 21-22 and 7-9: saveMemory is called; getDB opens the database
\* and the call suspends.
saveMemory(c, content, importance) ==
    /\ memCalls[c].pc = "idle"
    /\ memCalls' = [memCalls EXCEPT ![c] =
            [op |-> "save", pc |-> "opening", content |-> content,
             importance |-> importance]]
    /\ UNCHANGED <<database, entries, now>>
    /\ UNCHANGED notStore

\* memory.ts 39-40 and 7-9: deleteMemory is called; getDB opens the database.
deleteMemory(c, id) ==
    /\ memCalls[c].pc = "idle"
    /\ memCalls' = [memCalls EXCEPT ![c] =
            [op |-> "delete", pc |-> "opening", id |-> id]]
    /\ UNCHANGED <<database, entries, now>>
    /\ UNCHANGED notStore

\* memory.ts 9-16: indexedDB.open(dbName, 1) succeeds.  A database that did
\* not exist is created at version 1, and the upgrade handler creates the
\* object store; a database already at version 1 is opened as it is.
getDB(db) == IF db = "absent" THEN "ready" ELSE db

\* memory.ts 32, 42 and 54: db.transaction(storeName, ...) throws
\* NotFoundError when the database has no object store of that name.
HasObjectStore(db) == db = "ready"

\* memory.ts 16 and 31-32 (41-42, 53-54): the database is open but has no
\* object store: db.transaction throws inside the promise's executor and
\* the call is rejected.
TransactionThrows(c) ==
    /\ memCalls[c].pc = "opening"
    /\ memCalls[c].op \in {"save", "delete", "retrieve"}
    /\ ~HasObjectStore(getDB(database))
    /\ memCalls' = [memCalls EXCEPT ![c] =
            [op |-> memCalls[c].op, pc |-> "rejected", error |-> "NotFoundError"]]
    /\ UNCHANGED <<database, entries, now>>
    /\ UNCHANGED notStore

\* memory.ts 17: the open request fails and the call is rejected.
GetDBRejects(c) ==
    /\ memCalls[c].pc = "opening"
    /\ memCalls[c].op # "list"
    /\ memCalls' = [memCalls EXCEPT ![c] =
            [op |-> memCalls[c].op, pc |-> "rejected", error |-> "UnknownError"]]
    /\ UNCHANGED <<database, entries, now>>
    /\ UNCHANGED notStore

\* SaveBuildsEntry gone wrong: an error answered by the embedding worker
\* is thrown on, and the call is rejected before its entry is built.
SaveBuildsEntry_EmbeddingThrows(c) ==
    /\ memCalls[c].pc = "opening"
    /\ memCalls[c].op = "save"
    /\ \E r \in RequestIds :
        \E i \in DOMAIN replies[r] : replies[r][i].type = "error"
    /\ database' = getDB(database)
    /\ memCalls' = [memCalls EXCEPT ![c] =
            [op |-> "save", pc |-> "rejected",
             error |-> "EmbeddingUnavailable"]]
    /\ UNCHANGED <<entries, now>>
    /\ UNCHANGED notStore

\* memory.ts 16 and 23-33: the database is open; the entry is built with a
\* random id, the keywords of the text and the time of the clock, and its
\* add is requested in a readwrite transaction.
SaveBuildsEntry(c) ==
    /\ memCalls[c].pc = "opening"
    /\ memCalls[c].op = "save"
    /\ HasObjectStore(getDB(database))
    /\ database' = getDB(database)
    /\ \E id \in Ids, t \in now..MaxTime :
        /\ now' = t
        /\ memCalls' = [memCalls EXCEPT ![c] =
            [op |-> "save", pc |-> "tx",
             entry |-> [id |-> id,
                        content |-> memCalls[c].content,
                        tags |-> extractKeywords(memCalls[c].content),
                        importance |-> memCalls[c].importance,
                        timestamp |-> t]]]
    /\ UNCHANGED entries
    /\ UNCHANGED notStore

\* memory.ts 16 and 41-43: the database is open; the delete of the id is
\* requested in a readwrite transaction.
DeleteRequests(c) ==
    /\ memCalls[c].pc = "opening"
    /\ memCalls[c].op = "delete"
    /\ HasObjectStore(getDB(database))
    /\ database' = getDB(database)
    /\ memCalls' = [memCalls EXCEPT ![c].pc = "tx"]
    /\ UNCHANGED <<entries, now>>
    /\ UNCHANGED notStore

\* StoreAdd gone wrong: the call resolves and the record is not in the store.
StoreAdd_NotVisible(c) ==
    /\ ~HasKey(entries, memCalls[c].entry.id)
    /\ entries' = entries
    /\ memCalls' = [memCalls EXCEPT ![c] = [op |-> "save", pc |-> "resolved"]]

\* StoreAdd gone wrong: the record is added whatever keys the store holds.
StoreAdd_NoKeyCheck(c) ==
    /\ entries' = entries \cup {memCalls[c].entry}
    /\ memCalls' = [memCalls EXCEPT ![c] = [op |-> "save", pc |-> "resolved"]]

\* StoreAdd gone wrong: put, which replaces a record with the same key.
StoreAdd_Put(c) ==
    /\ entries' = {e \in entries : e.id # memCalls[c].entry.id}
                    \cup {memCalls[c].entry}
    /\ memCalls' = [memCalls EXCEPT ![c] = [op |-> "save", pc |-> "resolved"]]

\* memory.ts 33-34: objectStore.add(entry) succeeds, no record having the
\* entry's id, the transaction commits and oncomplete resolves the call.
StoreAdd(c) ==
    /\ ~HasKey(entries, memCalls[c].entry.id)
    /\ entries' = entries \cup {memCalls[c].entry}
    /\ memCalls' = [memCalls EXCEPT ![c] = [op |-> "save", pc |-> "resolved"]]

\* The error of a request that fails: ConstraintError when add finds a
\* record with the entry's key, UnknownError when the storage fails.
RequestError(c) ==
    IF memCalls[c].op = "save" /\ HasKey(entries, memCalls[c].entry.id)
    THEN "ConstraintError"
    ELSE "UnknownError"

\* memory.ts 33 and 35 (43 and 45): the add (delete) request fails, a record
\* with the id existing or the storage failing; its error event reaches
\* tx.onerror, the call is rejected and the transaction is aborted.
TxRequestFails(c) ==
    /\ memCalls' = [memCalls EXCEPT ![c] =
            [op |-> memCalls[c].op, pc |-> "rejected", error |-> RequestError(c)]]
    /\ UNCHANGED entries

\* TxCommitFails gone wrong: the record of a failed save stays in the store.
TxCommitFails_LeavesRecord(c) ==
    /\ memCalls' = [memCalls EXCEPT ![c] = [op |-> memCalls[c].op, pc |-> "pending"]]
    /\ entries' = IF memCalls[c].op = "save"
                  THEN entries \cup {memCalls[c].entry}
                  ELSE entries

\* memory.ts 32-35: the request succeeds but the commit fails (quota): the
\* transaction is aborted with an abort event only, for which the code has
\* no handler, and the call's promise stays pending.
TxCommitFails(c) ==
    /\ memCalls' = [memCalls EXCEPT ![c] = [op |-> memCalls[c].op, pc |-> "pending"]]
    /\ UNCHANGED entries

\* memory.ts 31-36: the transaction of a saveMemory call runs.
SaveTransaction(c) ==
    /\ memCalls[c].pc = "tx"
    /\ memCalls[c].op = "save"
    /\ \/ StoreAdd(c)
       \/ TxRequestFails(c)
       \/ /\ ~HasKey(entries, memCalls[c].entry.id)
          /\ TxCommitFails(c)
    /\ UNCHANGED <<database, now>>
    /\ UNCHANGED notStore

\* StoreDelete gone wrong: the object store is cleared.
StoreDelete_Clear(c) ==
    /\ entries' = {}
    /\ memCalls' = [memCalls EXCEPT ![c] = [op |-> "delete", pc |-> "resolved"]]

\* StoreDelete gone wrong: the call resolves and nothing is removed.
StoreDelete_Nothing(c) ==
    /\ entries' = entries
    /\ memCalls' = [memCalls EXCEPT ![c] = [op |-> "delete", pc |-> "resolved"]]

\* memory.ts 43-44: objectStore.delete(id) removes the record with the id,
\* if there is one; the transaction commits and oncomplete resolves.
StoreDelete(c) ==
    /\ entries' = {e \in entries : e.id # memCalls[c].id}
    /\ memCalls' = [memCalls EXCEPT ![c] = [op |-> "delete", pc |-> "resolved"]]

\* memory.ts 41-46: the transaction of a deleteMemory call runs.
DeleteTransaction(c) ==
    /\ memCalls[c].pc = "tx"
    /\ memCalls[c].op = "delete"
    /\ \/ StoreDelete(c)
       \/ TxRequestFails(c)
       \/ TxCommitFails(c)
    /\ UNCHANGED <<database, now>>
    /\ UNCHANGED notStore

\* "hiking trip"
QueryHiking == <<104, 105, 107, 105, 110, 103, 32, 116, 114, 105, 112>>

\* "Sushi sushi"
QuerySushi == <<83, 117, 115, 104, 105, 32, 115, 117, 115, 104, 105>>

Queries == {QueryHiking, QuerySushi}

\* memory.ts 68: .slice(0, 5)
TopK == 5

\* memory.ts 66: .filter(m => m.score > 0)
MinScore == 0
WikiLimit == 3        \* search.ts 19: srlimit
MaxFormatted == 5     \* search.ts 141: uniqueResults.slice(0, 5)

\* Array.prototype.includes
Includes(list, x) == \E i \in DOMAIN list : list[i] = x

\* memory.ts 64: m.tags.filter(t => keywords.includes(t)).length
Matches(tags, keywords) ==
    Cardinality({i \in DOMAIN tags : Includes(keywords, tags[i])})

\* Score gone wrong: the importance is left out.
Score_NoImportance(m, keywords) == Matches(m.tags, keywords) * 20

\* memory.ts 64: the score of a record, counted in tenths (the importances
\* of the model are integers, so that the tenths are exact).
Score(m, keywords) == Matches(m.tags, keywords) * 20 + m.importance

\* IDBObjectStore.getAll(): the records in the order of their keys
RECURSIVE getAll(_)
getAll(records) ==
    IF records = {} THEN <<>>
    ELSE LET first == CHOOSE e \in records : \A f \in records : e.id <= f.id
         IN  <<first>> \o getAll(records \ {first})

\* memory.ts 62-65
Scored(all, keywords) ==
    [i \in DOMAIN all |->
        [content |-> all[i].content, score |-> Score(all[i], keywords)]]

\* memory.ts 66
AboveMinScore(m) == m.score > MinScore

\* InsertByScore gone wrong: a record enters before those of its score.
RECURSIVE InsertByScore_BeforeEquals(_, _)
InsertByScore_BeforeEquals(sorted, m) ==
    IF sorted = <<>> THEN <<m>>
    ELSE IF sorted[1].score > m.score
         THEN <<sorted[1]>> \o InsertByScore_BeforeEquals(Tail(sorted), m)
         ELSE <<m>> \o sorted

\* memory.ts 67: sort((a, b) => b.score - a.score), a stable sort: a record
\* enters after those that score at least as much.
RECURSIVE InsertByScore(_, _)
InsertByScore(sorted, m) ==
    IF sorted = <<>> THEN <<m>>
    ELSE IF sorted[1].score >= m.score
         THEN <<sorted[1]>> \o InsertByScore(Tail(sorted), m)
         ELSE <<m>> \o sorted

RECURSIVE SortByScore(_)
SortByScore(list) ==
    IF list = <<>> THEN <<>>
    ELSE InsertByScore(SortByScore(SubSeq(list, 1, Len(list) - 1)),
                       list[Len(list)])

\* Slice gone wrong: nothing is cut.
Slice_All(list, n) == list

\* Array.prototype.slice(0, n)
Slice(list, n) == SubSeq(list, 1, IF Len(list) < n THEN Len(list) ELSE n)

\* memory.ts 61-68: the value of relevant before its last map
Relevant(records, keywords) ==
    Slice(SortByScore(SelectSeq(Scored(getAll(records), keywords),
                                AboveMinScore)),
          TopK)

\* memory.ts 69: .map(m => m.content)
Contents(relevant) == [i \in DOMAIN relevant |-> relevant[i].content]

\* memory.ts 49-50 and 7-9: retrieveRelevantMemory is called; getDB opens
\* the database and the call suspends.
retrieveRelevantMemory(c, query) ==
    /\ memCalls[c].pc = "idle"
    /\ memCalls' = [memCalls EXCEPT ![c] =
            [op |-> "retrieve", pc |-> "opening", query |-> query]]
    /\ UNCHANGED <<database, entries, now>>
    /\ UNCHANGED notStore

\* memory.ts 16 and 51-56: the database is open; the keywords of the query
\* are extracted and getAll is requested in a readonly transaction.
RetrieveRequests(c) ==
    /\ memCalls[c].pc = "opening"
    /\ memCalls[c].op = "retrieve"
    /\ HasObjectStore(getDB(database))
    /\ database' = getDB(database)
    /\ memCalls' = [memCalls EXCEPT ![c] =
            [op |-> "retrieve", pc |-> "tx",
             keywords |-> extractKeywords(memCalls[c].query)]]
    /\ UNCHANGED <<entries, now>>
    /\ UNCHANGED notStore

\* memory.ts 58-72: getAll succeeds; the records are scored, filtered,
\* sorted and cut, and the call resolves with their texts.
GetAllSucceeds(c) ==
    LET relevant == Relevant(entries, memCalls[c].keywords)
    IN  memCalls' = [memCalls EXCEPT ![c] =
            [op |-> "retrieve", pc |-> "resolved",
             keywords |-> memCalls[c].keywords,
             relevant |-> relevant,
             result |-> Contents(relevant)]]

\* memory.ts 73: getAll fails and the call is rejected with its error.
GetAllFails(c) ==
    memCalls' = [memCalls EXCEPT ![c] =
        [op |-> "retrieve", pc |-> "rejected", error |-> "UnknownError"]]

\* memory.ts 53-74: the transaction of a retrieveRelevantMemory call runs.
RetrieveTransaction(c) ==
    /\ memCalls[c].pc = "tx"
    /\ memCalls[c].op = "retrieve"
    /\ \/ GetAllSucceeds(c)
       \/ GetAllFails(c)
    /\ UNCHANGED <<database, entries, now>>
    /\ UNCHANGED notStore

\* memory.ts 134-137: the memory bank's loadMemories opens the database.
loadMemories(c) ==
    /\ memCalls[c].pc = "idle"
    /\ memCalls' = [memCalls EXCEPT ![c] = [op |-> "list", pc |-> "opening"]]
    /\ UNCHANGED <<database, entries, now>>
    /\ UNCHANGED notStore

\* memory.ts 137: indexedDB.open(dbName, 1) succeeds, the request having
\* no upgrade handler: a database that did not exist is created at version
\* 1 without any object store.
OpenWithoutUpgrade(db) == IF db = "absent" THEN "empty" ELSE db

\* memory.ts 137-140: the database is open but has no object store:
\* db.transaction throws in the success handler and nothing is listed.
ListThrows(c) ==
    /\ memCalls[c].pc = "opening"
    /\ memCalls[c].op = "list"
    /\ ~HasObjectStore(OpenWithoutUpgrade(database))
    /\ database' = OpenWithoutUpgrade(database)
    /\ memCalls' = [memCalls EXCEPT ![c] =
            [op |-> "list", pc |-> "threw", error |-> "NotFoundError"]]
    /\ UNCHANGED <<entries, now>>
    /\ UNCHANGED notStore

\* memory.ts 138-144: the database is open, getAll is requested in a readonly
\* transaction, and its result becomes the state allMemories.  The code has
\* no handler for a failure: the listing then stays as it was.
ListTransaction(c) ==
    /\ memCalls[c].pc = "opening"
    /\ memCalls[c].op = "list"
    /\ HasObjectStore(database)
    /\ memCalls' = [memCalls EXCEPT ![c] =
            [op |-> "list", pc |-> "resolved",
             allMemories |-> getAll(entries)]]
    /\ UNCHANGED <<database, entries, now>>
    /\ UNCHANGED notStore

(***************************************************************************)
(* A call on a store that the saveMemory calls of earlier sessions filled.  *)
(***************************************************************************)
\* What the earlier calls were given: saveMemory stores the text and the
\* importance of its arguments as they are.
StoredKinds ==
    { [content |-> NoteHiking, importance |-> DefaultImportance],
      [content |-> NoteSushi, importance |-> DefaultImportance],
      [content |-> NoteSushi, importance |-> -5] }

\* memory.ts 23-29: the record saveMemory built for such a call
StoredRecord(id, kind) ==
    [id |-> id, content |-> kind.content,
     tags |-> extractKeywords(kind.content),
     importance |-> kind.importance, timestamp |-> 0]

\* The collections of at most MaxStored records, under the ids 1, 2, ...
StoredCollections ==
    UNION { { {StoredRecord(i, kinds[i]) : i \in 1..n} :
                kinds \in [1..n -> StoredKinds] } : n \in 0..MaxStored }

\* "long trip", which shares no word with the notes
QueryTrip == <<108, 111, 110, 103, 32, 116, 114, 105, 112>>

StoredQueries == Queries \cup {QueryTrip}

StoredInit ==
    /\ database = "ready"
    /\ entries \in StoredCollections
    /\ memCalls = [c \in 1..MaxCalls |-> IdleMemCall]
    /\ now = 0

\* One retrieveRelevantMemory or deleteMemory call, from start to end.
StoredNext ==
    \E c \in {1} :
        \/ \E query \in StoredQueries : retrieveRelevantMemory(c, query)
        \/ \E id \in Ids : deleteMemory(c, id)
        \/ GetDBRejects(c)
        \/ RetrieveRequests(c)
        \/ DeleteRequests(c)
        \/ RetrieveTransaction(c)
        \/ DeleteTransaction(c)

\* Stores of notes saved with importance 8 and with importance 3
RankedKinds ==
    { [content |-> NoteHiking, importance |-> 8],
      [content |-> NoteHiking, importance |-> 3],
      [content |-> NoteSushi, importance |-> 3] }

RankedCollections ==
    UNION { { {StoredRecord(i, kinds[i]) : i \in 1..n} :
                kinds \in [1..n -> RankedKinds] } : n \in 0..MaxStored }

RankedInit ==
    /\ database = "ready"
    /\ entries \in RankedCollections
    /\ memCalls = [c \in 1..MaxCalls |-> IdleMemCall]
    /\ now = 0

\* One retrieveRelevantMemory call, from start to end.
RankedNext ==
    \E c \in {1} :
        \/ \E query \in StoredQueries : retrieveRelevantMemory(c, query)
        \/ GetDBRejects(c)
        \/ RetrieveRequests(c)
        \/ RetrieveTransaction(c)

\* Stores whose records were saved at different times: the ids are random,
\* so a record of any id may be the newer one.
DatedCollections ==
    UNION { { { [StoredRecord(i, [content |-> NoteSushi,
                                  importance |-> DefaultImportance])
                    EXCEPT !.timestamp = times[i]] : i \in 1..n } :
                times \in [1..n -> 0..MaxTime] } : n \in 0..MaxStored }

ListingInit ==
    /\ database = "ready"
    /\ entries \in DatedCollections
    /\ memCalls = [c \in 1..MaxCalls |-> IdleMemCall]
    /\ now = MaxTime

\* One listing of the memory bank, from start to end.
ListingNext ==
    \E c \in {1} :
        \/ loadMemories(c)
        \/ ListTransaction(c)

(***************************************************************************)
(* A write and a read side by side: call 1 saves "Hiking, hiking" or       *)
(* deletes id 1, call 2 retrieves or lists, on a store that is empty or    *)
(* holds the record of id 1, "which Sushi?".                               *)
(***************************************************************************)
SushiRecord ==
    StoredRecord(1, [content |-> NoteSushi, importance |-> DefaultImportance])

VisibilityInit ==
    /\ database = "ready"
    /\ entries \in {{}, {SushiRecord}}
    /\ memCalls = [c \in 1..MaxCalls |-> IdleMemCall]
    /\ now = 0

VisibilityNext ==
    \/ saveMemory(1, NoteHiking, DefaultImportance)
    \/ deleteMemory(1, 1)
    \/ retrieveRelevantMemory(2, QueryTrip)
    \/ loadMemories(2)
    \/ \E c \in {1, 2} :
        \/ GetDBRejects(c)
        \/ SaveBuildsEntry(c)
        \/ DeleteRequests(c)
        \/ RetrieveRequests(c)
        \/ SaveTransaction(c)
        \/ DeleteTransaction(c)
        \/ RetrieveTransaction(c)
        \/ ListTransaction(c)

StoreNext ==
    \E c \in 1..MaxCalls :
        \/ \E content \in Notes, importance \in Importances :
                saveMemory(c, content, importance)
        \/ \E content \in Notes : saveMemory(c, content, DefaultImportance)
        \/ \E id \in Ids : deleteMemory(c, id)
        \/ \E query \in Queries : retrieveRelevantMemory(c, query)
        \/ loadMemories(c)
        \/ GetDBRejects(c)
        \/ TransactionThrows(c)
        \/ ListThrows(c)
        \/ SaveBuildsEntry(c)
        \/ DeleteRequests(c)
        \/ RetrieveRequests(c)
        \/ SaveTransaction(c)
        \/ DeleteTransaction(c)
        \/ RetrieveTransaction(c)
        \/ ListTransaction(c)

(***************************************************************************)
(* Claims about the memory store.                                          *)
(***************************************************************************)
\* C1 (as claimed): after any sequence of saveMemory calls no record of the
\* collection holds the note's plain text: the text is stored only as
\* ciphertext with its nonce.
C1_NoPlainText ==
    \A e \in entries :
        /\ "content" \notin DOMAIN e
        /\ {"encryptedContent", "iv"} \subseteq DOMAIN e

\* The key manager has given a key to this process.
KeyAvailable == \E k \in 1..KeyCallers : KeyReturned(k)

\* C4 (as claimed): while the key manager's key is not available, a
\* saveMemory call does not succeed and leaves the collection unchanged.
C4_KeyRequired ==
    [][\A c \in 1..MaxCalls :
        (/\ ~KeyAvailable
         /\ memCalls'[c].op = "save"
         /\ memCalls'[c] # memCalls[c]) =>
            /\ entries' = entries
            /\ memCalls'[c].pc # "resolved"]_vars

SaveBuilds(c) ==
    /\ memCalls[c].op = "save"
    /\ memCalls[c].pc = "opening"
    /\ memCalls'[c].pc = "tx"

SaveResolves(c) ==
    /\ memCalls[c].op = "save"
    /\ memCalls[c].pc # "resolved"
    /\ memCalls'[c].pc = "resolved"

\* C10: each successful saveMemory call adds exactly one new record to the
\* collection, under an id no stored record had and with the time the clock
\* gave when the entry was built, and leaves every stored record unchanged.
C10_OneNewRecord ==
    [][\A c \in 1..MaxCalls :
        /\ SaveBuilds(c) =>
            /\ memCalls'[c].entry.timestamp = now'
            /\ now' >= now
            /\ entries' = entries
        /\ SaveResolves(c) =>
            /\ ~HasKey(entries, memCalls[c].entry.id)
            /\ entries' = entries \cup {memCalls[c].entry}
            /\ Cardinality(entries') = Cardinality(entries) + 1
            /\ memCalls[c].entry.timestamp <= now]_vars

\* C10 witness: a saveMemory call has resolved after adding its record to a
\* collection that already held another one.
C10_Witness ==
    /\ Cardinality(entries) = 2
    /\ \A c \in 1..2 : memCalls[c] = [op |-> "save", pc |-> "resolved"]

\* C11: after any sequence of saveMemory and deleteMemory calls no two
\* records of the collection have the same id, and the id of a stored record
\* never changes: no step takes a record away and puts another in.
C11_UniqueIds ==
    /\ [](\A e \in entries, f \in entries : e.id = f.id => e = f)
    /\ [][entries \subseteq entries' \/ entries' \subseteq entries]_vars

\* C11 witness: a saveMemory call drew the id of a stored record and was
\* refused, the store keeping the one record with that id.
C11_Witness ==
    /\ Cardinality(entries) = 1
    /\ \E c \in 1..MaxCalls :
        memCalls[c] =
            [op |-> "save", pc |-> "rejected", error |-> "ConstraintError"]

\* C12 (as claimed): every stored entry has an importance in [1,10], a value
\* outside the range being clamped into it by saveMemory.
C12_ImportanceInRange == \A e \in entries : e.importance \in 1..10

\* A deleteMemory call for this id resolves in the step.
DeleteResolves(c, id) ==
    /\ memCalls[c].op = "delete"
    /\ memCalls[c].pc = "tx"
    /\ memCalls[c].id = id
    /\ memCalls'[c].pc = "resolved"

\* C13: a stored entry is never modified in place and never disappears
\* except through deleteMemory with its id: in every step of saveMemory,
\* deleteMemory, retrieveRelevantMemory and the listing, each stored record
\* stays as it is, unless a deleteMemory call for its id resolves, and then
\* no record has its id.
C13_NeverModified ==
    [][\A e \in entries :
        \/ e \in entries'
        \/ /\ \E c \in 1..MaxCalls : DeleteResolves(c, e.id)
           /\ ~HasKey(entries', e.id)]_vars

\* C13 witness: a stored entry has been read by a retrieval that returned
\* its text, and is still in the store.
C13_Witness ==
    /\ Cardinality(entries) = 1
    /\ \E c \in 1..MaxCalls :
        /\ memCalls[c].op = "retrieve"
        /\ memCalls[c].pc = "resolved"
        /\ Len(memCalls[c].result) = 1
        /\ \E e \in entries : memCalls[c].result[1] = e.content

\* A deleteMemory call for an id that no stored record has ends in the step.
DeleteOfMissingEnds(c) ==
    /\ memCalls[c].op = "delete"
    /\ memCalls[c].pc \in {"opening", "tx"}
    /\ ~HasKey(entries, memCalls[c].id)
    /\ memCalls'[c].pc \in {"resolved", "rejected"}

\* C14 (as claimed): deleteMemory called with an id that is not in the
\* collection does not fail, a failure of the storage itself apart, and
\* leaves the collection unchanged.
C14_DeleteMissingSucceeds ==
    [][\A c \in 1..MaxCalls :
        DeleteOfMissingEnds(c) =>
            /\ entries' = entries
            /\ memCalls'[c].pc = "rejected" =>
                    memCalls'[c].error = "UnknownError"]_vars

\* C15: deleteMemory(id) with an id present in the collection, when it
\* resolves, has removed exactly the record with that id: the id is absent
\* and every other record is still present and unchanged.
C15_DeleteRemovesOne ==
    [][\A c \in 1..MaxCalls :
        (/\ memCalls[c].op = "delete"
         /\ memCalls[c].pc = "tx"
         /\ memCalls'[c].pc = "resolved"
         /\ HasKey(entries, memCalls[c].id)) =>
            /\ ~HasKey(entries', memCalls[c].id)
            /\ entries' = {e \in entries : e.id # memCalls[c].id}
            /\ Cardinality(entries') = Cardinality(entries) - 1]_vars

\* C15 witness: of six stored records, the one with id 2 has been deleted
\* and the five others are in the store.
C15_Witness ==
    /\ memCalls[1] = [op |-> "delete", pc |-> "resolved"]
    /\ {e.id : e \in entries} = (1..MaxStored) \ {2}

\* A retrieveRelevantMemory call has resolved.
Retrieved(c) == memCalls[c].op = "retrieve" /\ memCalls[c].pc = "resolved"

\* C16 (as claimed): retrieveRelevantMemory returns an entry only if its
\* score is strictly greater than 3 (30 tenths).
C16_AboveThreshold ==
    \A c \in 1..MaxCalls :
        Retrieved(c) =>
            \A i \in DOMAIN memCalls[c].relevant :
                memCalls[c].relevant[i].score > 30

\* A retrieveRelevantMemory call resolves in the step.
RetrieveResolves(c) ==
    /\ memCalls[c].op = "retrieve"
    /\ memCalls[c].pc = "tx"
    /\ memCalls'[c].pc = "resolved"

CountAbove(list, x) == Cardinality({i \in DOMAIN list : list[i].score > x})

CountOf(list, m) == Cardinality({i \in DOMAIN list : list[i] = m})

\* C17: retrieveRelevantMemory returns at most 5 entries, in non-increasing
\* score order, each a stored entry that passed the filter; every entry that
\* scores strictly higher than a returned one is returned too, and when
\* fewer than 5 entries qualify (pass the code's filter, or score above 3)
\* all of them are returned.
C17_TopFive ==
    [][\A c \in 1..MaxCalls :
        RetrieveResolves(c) =>
            LET all == Scored(getAll(entries), memCalls[c].keywords)
                top == memCalls'[c].relevant
            IN  /\ Len(top) <= 5
                /\ \A i \in 1..(Len(top) - 1) : top[i].score >= top[i + 1].score
                /\ \A i \in DOMAIN top :
                    /\ CountOf(top, top[i]) <= CountOf(all, top[i])
                    /\ top[i].score > MinScore
                    /\ CountAbove(all, top[i].score)
                            = CountAbove(top, top[i].score)
                /\ CountAbove(all, MinScore) < 5 =>
                        Len(top) = CountAbove(all, MinScore)
                /\ CountAbove(all, MinScore) >= 5 => Len(top) = 5
                /\ CountAbove(all, 30) < 5 =>
                        CountAbove(top, 30) = CountAbove(all, 30)
                /\ memCalls'[c].result
                        = [i \in DOMAIN top |-> top[i].content]]_vars

\* C17 witness: a retrieval has returned 5 entries of different scores from
\* a store where at least 6 passed the filter.
C17_Witness ==
    \E c \in 1..MaxCalls :
        /\ Retrieved(c)
        /\ Len(memCalls[c].relevant) = 5
        /\ memCalls[c].relevant[1].score > memCalls[c].relevant[5].score
        /\ CountAbove(Scored(getAll(entries), memCalls[c].keywords), MinScore)
                >= 6

\* The distinct words two lists share
SharedWords(tags, keywords) ==
    {tags[i] : i \in DOMAIN tags} \cap {keywords[i] : i \in DOMAIN keywords}

\* C18 (as claimed): the tags of an entry and the keywords of a query count
\* as sets, the keyword part of a score being 2 times (20 tenths times) the
\* number of distinct words they share: each returned score is that plus
\* a tenth of the importance of the entry of that text, however often a
\* word is repeated in the saved text or in the query.
C18_DistinctShared ==
    \A c \in 1..MaxCalls :
        Retrieved(c) =>
            \A i \in DOMAIN memCalls[c].relevant :
                \E e \in entries :
                    /\ e.content = memCalls[c].relevant[i].content
                    /\ memCalls[c].relevant[i].score =
                        20 * Cardinality(SharedWords(e.tags, memCalls[c].keywords))
                            + e.importance

\* A retrieveRelevantMemory call on a store with no entry ends in the step.
RetrieveOfEmptyEnds(c) ==
    /\ memCalls[c].op = "retrieve"
    /\ memCalls[c].pc \in {"opening", "tx"}
    /\ entries = {}
    /\ memCalls'[c].pc \in {"resolved", "rejected"}

\* C19 (as claimed): retrieveRelevantMemory called on a store with zero
\* entries, never written or emptied by deletions, returns an empty list
\* and does not fail, a failure of the storage itself apart.
C19_EmptyStoreEmptyList ==
    [][\A c \in 1..MaxCalls :
        RetrieveOfEmptyEnds(c) =>
            /\ memCalls'[c].pc = "resolved" => memCalls'[c].result = <<>>
            /\ memCalls'[c].pc = "rejected" =>
                    memCalls'[c].error = "UnknownError"]_vars

\* ASCII punctuation: the printable characters that are neither letters,
\* digits nor the blank
IsPunctuation(u) == u \in (33..47) \cup (58..64) \cup (91..96) \cup (123..126)

\* A text without its punctuation
RECURSIVE WithoutPunctuation(_)
WithoutPunctuation(text) ==
    IF text = <<>> THEN <<>>
    ELSE IF IsPunctuation(text[1])
         THEN WithoutPunctuation(Tail(text))
         ELSE <<text[1]>> \o WithoutPunctuation(Tail(text))

\* C20 (as claimed): extractKeywords returns exactly the tokens of the
\* lowercased, punctuation-stripped, whitespace-split text that are longer
\* than 3 characters and not in the stop-word list; no returned token has
\* length 3 or less, an uppercase letter or punctuation, or is a stop word.
C20_ExactTokens ==
    kwCall.state = "returned" =>
        /\ kwCall.result =
            KeepKeywords(SplitOnSpace(WithoutPunctuation(ToLowerCase(kwCall.text))))
        /\ \A i \in DOMAIN kwCall.result :
            LET token == kwCall.result[i]
            IN  /\ Len(token) > 3
                /\ token \notin Stopwords
                /\ \A k \in DOMAIN token :
                    token[k] \notin 65..90 /\ ~IsPunctuation(token[k])

\* The entries of a list that have this score, in the order of the list
WithScore(list, x) == SelectSeq(list, LAMBDA m : m.score = x)

\* C21: among entries of equal score retrieveRelevantMemory keeps the order
\* in which getAll loaded them, also on the cut at 5 results: the returned
\* entries of one score are the first loaded entries of that score, in
\* their load order.
C21_StableRanking ==
    [][\A c \in 1..MaxCalls :
        RetrieveResolves(c) =>
            LET all == Scored(getAll(entries), memCalls[c].keywords)
                top == memCalls'[c].relevant
            IN  \A i \in DOMAIN top :
                    LET kept == WithScore(top, top[i].score)
                    IN  kept = SubSeq(WithScore(all, top[i].score), 1, Len(kept))]_vars

\* C21 witness: a retrieval has returned 5 entries of one score, of both
\* texts and not grouped by text, from a store where a sixth entry of that
\* score was cut.
C21_Witness ==
    \E c \in 1..MaxCalls :
        /\ Retrieved(c)
        /\ Len(memCalls[c].relevant) = 5
        /\ memCalls[c].relevant[1].score = memCalls[c].relevant[5].score
        /\ memCalls[c].relevant[1].content = NoteSushi
        /\ memCalls[c].relevant[2].content = NoteHiking
        /\ memCalls[c].relevant[3].content = NoteSushi
        /\ Len(WithScore(Scored(getAll(entries), memCalls[c].keywords),
                         memCalls[c].relevant[1].score)) >= 6

Item(e, keywords) == [content |-> e.content, score |-> Score(e, keywords)]

\* C23: with no embeddings the ranking is keyword overlap plus importance:
\* of two stored entries that have the same number of tags matching the
\* query, the one of higher importance (8) never appears after the one of
\* lower importance (3) in the result, and is in the result when the other
\* is.
C23_ImportanceBreaksTies ==
    [][\A c \in 1..MaxCalls :
        RetrieveResolves(c) =>
            LET keywords == memCalls[c].keywords
                all == Scored(getAll(entries), keywords)
                top == memCalls'[c].relevant
            IN  \A a \in entries, b \in entries :
                    (/\ Matches(a.tags, keywords) = Matches(b.tags, keywords)
                     /\ a.importance > b.importance) =>
                        /\ \A i \in DOMAIN top, j \in DOMAIN top :
                            (top[i] = Item(b, keywords) /\ top[j] = Item(a, keywords))
                                => j < i
                        /\ CountOf(top, Item(b, keywords)) > 0 =>
                            CountOf(top, Item(a, keywords))
                                = CountOf(all, Item(a, keywords))]_vars

\* C23 witness: a retrieval sharing no word with the notes has returned an
\* entry of importance 8 before an entry of importance 3 of another text
\* that was loaded before it.
C23_Witness ==
    \E c \in 1..MaxCalls :
        /\ Retrieved(c)
        /\ \E a \in entries, b \in entries :
            /\ a.importance = 8 /\ b.importance = 3
            /\ a.content # b.content
            /\ b.id < a.id
            /\ Matches(a.tags, memCalls[c].keywords) = 0
            /\ Matches(b.tags, memCalls[c].keywords) = 0
            /\ \E i \in DOMAIN memCalls[c].relevant,
                  j \in DOMAIN memCalls[c].relevant :
                /\ i < j
                /\ memCalls[c].relevant[i] = Item(a, memCalls[c].keywords)
                /\ memCalls[c].relevant[j] = Item(b, memCalls[c].keywords)

\* The memory bank's listing has got its records.
Listed(c) == memCalls[c].op = "list" /\ memCalls[c].pc = "resolved"

\* C24 (as claimed): the listing of all memories returns every stored entry,
\* ordered newest first, by descending creation timestamp.
C24_NewestFirst ==
    \A c \in 1..MaxCalls :
        Listed(c) =>
            LET list == memCalls[c].allMemories
            IN  /\ {list[i] : i \in DOMAIN list} = entries
                /\ Len(list) = Cardinality(entries)
                /\ \A i \in DOMAIN list, j \in DOMAIN list :
                    i < j => list[i].timestamp >= list[j].timestamp

\* A step of a saveMemory call that does not resolve it
SaveStepNotResolving(c) ==
    /\ memCalls'[c] # memCalls[c]
    /\ memCalls'[c].op = "save"
    /\ memCalls'[c].pc # "resolved"

CompleteEntry(e) ==
    DOMAIN e = {"id", "content", "tags", "importance", "timestamp"}

\* C25: a saveMemory whose storage transaction fails leaves no trace: no
\* step of a call other than the one that resolves it changes the
\* collection, so that nothing is there to observe of a failed save, and
\* every record of the collection is a complete entry.
C25_FailedSaveNoTrace ==
    /\ [](\A e \in entries : CompleteEntry(e))
    /\ [][\A c \in 1..MaxCalls :
            SaveStepNotResolving(c) => entries' = entries]_vars

\* C25 witness: the transaction of a saveMemory call was aborted at its
\* commit, and a retrieval finds the store empty.
C25_Witness ==
    /\ entries = {}
    /\ \E c \in 1..MaxCalls, d \in 1..MaxCalls :
        /\ memCalls[c] = [op |-> "save", pc |-> "pending"]
        /\ Retrieved(d)
        /\ memCalls[d].result = <<>>

\* C27 (as claimed): when the storage fails during saveMemory, deleteMemory
\* or retrieveRelevantMemory, the call's promise is rejected: it never stays
\* pending forever and never resolves as a success.
C27_FailureRejects ==
    \A c \in 1..MaxCalls :
        memCalls[c].op \in {"save", "delete", "retrieve"} =>
            memCalls[c].pc # "pending"

\* The listing gets its records in the step.
ListResolves(c) ==
    /\ memCalls[c].op = "list"
    /\ memCalls[c].pc = "opening"
    /\ memCalls'[c].pc = "resolved"

\* The texts of the records a listing got
ListedContents(list) == {list[i].content : i \in DOMAIN list}

\* C26: completion implies visibility.  A retrieval or listing whose read
\* runs after the saveMemory call of "Hiking, hiking" has resolved (so also
\* one started after it) loads the saved entry, and one whose read runs
\* after the deleteMemory call for the "which Sushi?" record has resolved
\* never loads that record.
C26_CompletionVisible ==
    [][\A c \in 1..MaxCalls :
        /\ RetrieveResolves(c) =>
            /\ memCalls[1] = [op |-> "save", pc |-> "resolved"] =>
                    Includes(memCalls'[c].result, NoteHiking)
            /\ memCalls[1] = [op |-> "delete", pc |-> "resolved"] =>
                    ~Includes(memCalls'[c].result, NoteSushi)
        /\ ListResolves(c) =>
            /\ memCalls[1] = [op |-> "save", pc |-> "resolved"] =>
                    NoteHiking \in ListedContents(memCalls'[c].allMemories)
            /\ memCalls[1] = [op |-> "delete", pc |-> "resolved"] =>
                    NoteSushi \notin ListedContents(memCalls'[c].allMemories)]_vars

\* C26 witness: the save has resolved and a retrieval has returned the saved
\* text with the text that was there before.
C26_Witness ==
    /\ memCalls[1] = [op |-> "save", pc |-> "resolved"]
    /\ Retrieved(2)
    /\ Includes(memCalls[2].result, NoteHiking)
    /\ Includes(memCalls[2].result, NoteSushi)

(***************************************************************************)
(* The chat (memory.ts 89-691: App and the store useChatStore).           *)
(*                                                                         *)
(* A session is its id and its messages; a message is its id, its role    *)
(* and its content, the sequence of the texts that were put into it, each *)
(* known by the handleSendMessage run it came from and by what it is.     *)
(* Titles and timestamps are left out. The id crypto.randomUUID() gives a *)
(* session is the number of sessions created so far, and the id it gives  *)
(* a message is the pair of the run that added it and the number of       *)
(* messages that run has added.                                           *)
(*                                                                         *)
(* The calls handleSendMessage awaits are known by how they settle:       *)
(* retrieveRelevantMemory and saveMemory as the store section gives them, *)
(* streamCopilotResponse and fetchCopilotResponse as in search.ts 159-297.*)
(***************************************************************************)
NoSession == 0

NoMessage == <<0, 0>>

\* The runs of handleSendMessage: a first send and a second one
Sends == {1, 2}

IdleSend ==
    [pc |-> "idle", sessionId |-> NoSession, useSearch |-> FALSE,
     added |-> 0, placeholder |-> NoMessage, chunks |-> 0, saveCalls |-> 0]

\* memory.ts 611-613 and 122-123: the store and the component as constructed
ChatInit ==
    /\ sessions = <<>>
    /\ currentSessionId = NoSession
    /\ apiKey = FALSE
    /\ sessionsCreated = 0
    /\ loading = FALSE
    /\ useSearch = FALSE
    /\ sends = [k \in Sends |-> IdleSend]

SessionIds(ss) == {ss[i].id : i \in DOMAIN ss}

Piece(k, kind) == [by |-> k, kind |-> kind]

\* memory.ts 632-646: the sessions after addMessage(sessionId, message)
addMessage(ss, sessionId, message) ==
    [i \in DOMAIN ss |->
        IF ss[i].id = sessionId
        THEN [ss[i] EXCEPT !.messages = Append(@, message)]
        ELSE ss[i]]

\* memory.ts 648-663: the sessions after updateLastMessage(sessionId, content)
updateLastMessage(ss, sessionId, content) ==
    [i \in DOMAIN ss |->
        IF ss[i].id = sessionId
        THEN [ss[i] EXCEPT !.messages =
                [idx \in DOMAIN @ |->
                    IF idx = Len(@)
                    THEN [@[idx] EXCEPT !.content = Append(@, content)]
                    ELSE @[idx]]]
        ELSE ss[i]]

\* memory.ts 617-630
createSession ==
    /\ sessionsCreated < MaxSessions
    /\ sessionsCreated' = sessionsCreated + 1
    /\ sessions' = <<[id |-> sessionsCreated + 1, messages |-> <<>>]>> \o sessions
    /\ currentSessionId' = sessionsCreated + 1
    /\ UNCHANGED <<apiKey, loading, useSearch, sends>>
    /\ UNCHANGED notChat

\* memory.ts 157-161: the effect that creates the first session
InitializeSession ==
    /\ currentSessionId = NoSession
    /\ Len(sessions) = 0
    /\ sessionsCreated < MaxSessions
    /\ sessionsCreated' = sessionsCreated + 1
    /\ sessions' = <<[id |-> sessionsCreated + 1, messages |-> <<>>]>> \o sessions
    /\ currentSessionId' = sessionsCreated + 1
    /\ UNCHANGED <<apiKey, loading, useSearch, sends>>
    /\ UNCHANGED notChat

\* memory.ts 327-332: a click on a session of the side bar
SelectSession(id) ==
    /\ id \in SessionIds(sessions)
    /\ currentSessionId' = id
    /\ UNCHANGED <<sessions, apiKey, sessionsCreated, loading, useSearch, sends>>
    /\ UNCHANGED notChat

OtherSessions(ss, sessionId) == SelectSeq(ss, LAMBDA s : s.id # sessionId)

\* deleteSession gone wrong: the current session id is left as it was.
deleteSession_KeepsCurrent(sessionId) ==
    /\ sessionId \in SessionIds(sessions)
    /\ sessions' = OtherSessions(sessions, sessionId)
    /\ UNCHANGED <<currentSessionId, apiKey, sessionsCreated, loading,
                   useSearch, sends>>
    /\ UNCHANGED notChat

\* memory.ts 673-680
deleteSession(sessionId) ==
    /\ sessionId \in SessionIds(sessions)
    /\ sessions' = OtherSessions(sessions, sessionId)
    /\ currentSessionId' =
            IF currentSessionId = sessionId
            THEN IF Len(OtherSessions(sessions, sessionId)) > 0
                 THEN Head(OtherSessions(sessions, sessionId)).id
                 ELSE NoSession
            ELSE currentSessionId
    /\ UNCHANGED <<apiKey, sessionsCreated, loading, useSearch, sends>>
    /\ UNCHANGED notChat

\* memory.ts 615
setApiKey ==
    /\ ~apiKey
    /\ apiKey' = TRUE
    /\ UNCHANGED <<sessions, currentSessionId, sessionsCreated, loading,
                   useSearch, sends>>
    /\ UNCHANGED notChat

\* memory.ts 472-473: the search button
ToggleSearch ==
    /\ useSearch' = ~useSearch
    /\ UNCHANGED <<sessions, currentSessionId, apiKey, sessionsCreated,
                   loading, sends>>
    /\ UNCHANGED notChat

\* The id of the next message run k adds
NextMessageId(k) == <<k, sends[k].added + 1>>

\* memory.ts 170-187: a text was typed and handleSendMessage is called, by
\* the Enter key (line 490) or by the send button, which loading disables
\* (lines 495-496); it runs to the await of retrieveRelevantMemory.
handleSendMessage(k) ==
    /\ sends[k].pc = "idle"
    /\ k > 1 => sends[k - 1].pc # "idle"
    /\ \E control \in {"enter", "button"} : control = "button" => ~loading
    /\ currentSessionId # NoSession
    /\ apiKey
    /\ loading' = TRUE
    /\ sessions' = addMessage(sessions, currentSessionId,
            [id |-> NextMessageId(k), role |-> "user",
             content |-> <<Piece(k, "input")>>])
    /\ sends' = [sends EXCEPT ![k] =
            [@ EXCEPT !.pc = "retrieving", !.sessionId = currentSessionId,
                      !.useSearch = useSearch, !.added = @ + 1]]
    /\ UNCHANGED <<currentSessionId, apiKey, sessionsCreated, useSearch>>
    /\ UNCHANGED notChat

\* memory.ts 285-291: the catch and the finally of handleSendMessage
Caught(k) ==
    /\ sessions' = addMessage(sessions, sends[k].sessionId,
            [id |-> NextMessageId(k), role |-> "system",
             content |-> <<Piece(k, "error")>>])
    /\ loading' = FALSE
    /\ sends' = [sends EXCEPT ![k] = [@ EXCEPT !.pc = "caught", !.added = @ + 1]]
    /\ UNCHANGED <<currentSessionId, apiKey, sessionsCreated, useSearch>>
    /\ UNCHANGED notChat

\* memory.ts 187-224: retrieveRelevantMemory resolved; the placeholder is
\* added and the reply is requested.
RetrievalResolves(k) ==
    /\ sends[k].pc = "retrieving"
    /\ sessions' = addMessage(sessions, sends[k].sessionId,
            [id |-> NextMessageId(k), role |-> "assistant", content |-> <<>>])
    /\ sends' = [sends EXCEPT ![k] =
            [@ EXCEPT !.pc = "streaming", !.placeholder = NextMessageId(k),
                      !.added = @ + 1]]
    /\ UNCHANGED <<currentSessionId, apiKey, sessionsCreated, loading, useSearch>>
    /\ UNCHANGED notChat

\* RetrievalRejects gone wrong: the handler ends with no catch and no finally.
RetrievalRejects_NoFinally(k) ==
    /\ sends[k].pc = "retrieving"
    /\ sends' = [sends EXCEPT ![k] = [@ EXCEPT !.pc = "caught"]]
    /\ UNCHANGED <<sessions, currentSessionId, apiKey, sessionsCreated,
                   loading, useSearch>>
    /\ UNCHANGED notChat

\* memory.ts 187, 285-291: retrieveRelevantMemory rejected
RetrievalRejects(k) ==
    /\ sends[k].pc = "retrieving"
    /\ Caught(k)

\* memory.ts 224-227 and 251-254, search.ts 290: the stream gives a chunk
StreamChunk(k) ==
    /\ sends[k].pc \in {"streaming", "followUp"}
    /\ sends[k].chunks < MaxChunks
    /\ sessions' = updateLastMessage(sessions, sends[k].sessionId, Piece(k, "chunk"))
    /\ sends' = [sends EXCEPT ![k] = [@ EXCEPT !.chunks = @ + 1]]
    /\ UNCHANGED <<currentSessionId, apiKey, sessionsCreated, loading, useSearch>>
    /\ UNCHANGED notChat

\* memory.ts 224-234, 260-268: the reply stream ended (search.ts 265, 271);
\* with the search tool on and a search asked for in the reply, the search
\* starts, otherwise the compression of the turn is requested.
StreamCompletes(k) ==
    /\ sends[k].pc = "streaming"
    /\ \E searchMatch \in BOOLEAN :
        /\ searchMatch => sends[k].chunks > 0
        /\ IF sends[k].useSearch /\ searchMatch
           THEN /\ sessions' = updateLastMessage(sessions, sends[k].sessionId,
                                                 Piece(k, "searching"))
                /\ sends' = [sends EXCEPT ![k] = [@ EXCEPT !.pc = "searching"]]
           ELSE /\ sessions' = sessions
                /\ sends' = [sends EXCEPT ![k] = [@ EXCEPT !.pc = "compressing"]]
    /\ UNCHANGED <<currentSessionId, apiKey, sessionsCreated, loading, useSearch>>
    /\ UNCHANGED notChat

\* memory.ts 224, 251, 285-291: streamCopilotResponse rejected (search.ts
\* 172, 258, or a failed read of the body)
StreamRejects(k) ==
    /\ sends[k].pc \in {"streaming", "followUp"}
    /\ Caught(k)

\* memory.ts 236-251: performSearch resolved (it never rejects, search.ts
\* 112-151); the follow-up reply is requested.
SearchResolves(k) ==
    /\ sends[k].pc = "searching"
    /\ sessions' = updateLastMessage(sessions, sends[k].sessionId, Piece(k, "results"))
    /\ sends' = [sends EXCEPT ![k] = [@ EXCEPT !.pc = "followUp", !.chunks = 0]]
    /\ UNCHANGED <<currentSessionId, apiKey, sessionsCreated, loading, useSearch>>
    /\ UNCHANGED notChat

\* memory.ts 251-268: the follow-up stream ended
FollowUpCompletes(k) ==
    /\ sends[k].pc = "followUp"
    /\ sends' = [sends EXCEPT ![k] = [@ EXCEPT !.pc = "compressing"]]
    /\ UNCHANGED <<sessions, currentSessionId, apiKey, sessionsCreated,
                   loading, useSearch>>
    /\ UNCHANGED notChat

\* memory.ts 265-283: fetchCopilotResponse resolved or rejected (the inner
\* catch); in both cases saveMemory is called.
CompressionSettles(k) ==
    /\ sends[k].pc = "compressing"
    /\ sends' = [sends EXCEPT ![k] = [@ EXCEPT !.pc = "saving", !.saveCalls = @ + 1]]
    /\ UNCHANGED <<sessions, currentSessionId, apiKey, sessionsCreated,
                   loading, useSearch>>
    /\ UNCHANGED notChat

\* memory.ts 283, 289-291: saveMemory resolved
SaveMemoryResolves(k) ==
    /\ sends[k].pc = "saving"
    /\ loading' = FALSE
    /\ sends' = [sends EXCEPT ![k] = [@ EXCEPT !.pc = "returned"]]
    /\ UNCHANGED <<sessions, currentSessionId, apiKey, sessionsCreated, useSearch>>
    /\ UNCHANGED notChat

\* memory.ts 283, 285-291: saveMemory rejected
SaveMemoryRejects(k) ==
    /\ sends[k].pc = "saving"
    /\ Caught(k)

\* The page with one send.
ChatNext ==
    \/ createSession
    \/ InitializeSession
    \/ setApiKey
    \/ ToggleSearch
    \/ \E id \in 1..MaxSessions :
        \/ SelectSession(id)
        \/ deleteSession(id)
    \/ \E k \in {1} :
        \/ handleSendMessage(k)
        \/ RetrievalResolves(k)
        \/ RetrievalRejects(k)
        \/ StreamChunk(k)
        \/ StreamCompletes(k)
        \/ StreamRejects(k)
        \/ SearchResolves(k)
        \/ FollowUpCompletes(k)
        \/ CompressionSettles(k)
        \/ SaveMemoryResolves(k)
        \/ SaveMemoryRejects(k)

\* The page with two sends, the second started at any time after the first.
TwoSendsNext ==
    \/ createSession
    \/ InitializeSession
    \/ setApiKey
    \/ ToggleSearch
    \/ \E id \in 1..MaxSessions :
        \/ SelectSession(id)
        \/ deleteSession(id)
    \/ \E k \in Sends :
        \/ handleSendMessage(k)
        \/ RetrievalResolves(k)
        \/ RetrievalRejects(k)
        \/ StreamChunk(k)
        \/ StreamCompletes(k)
        \/ StreamRejects(k)
        \/ SearchResolves(k)
        \/ FollowUpCompletes(k)
        \/ CompressionSettles(k)
        \/ SaveMemoryResolves(k)
        \/ SaveMemoryRejects(k)

(***************************************************************************)
(* The store's functions on their own: addMessage, updateLastMessage and   *)
(* updateSessionTitle called with any session id on a store that holds     *)
(* some sessions, each with its title.                                     *)
(***************************************************************************)
DefaultTitle == "New Converation"

Titles == {DefaultTitle, "Trip"}

\* memory.ts 617-630: the lists createSession (and deleteSession) leave:
\* sessions of distinct ids, without messages
FreshSessionLists ==
    UNION { { [i \in 1..n |-> [id |-> ids[i], title |-> DefaultTitle,
                               messages |-> <<>>]] :
                ids \in { f \in [1..n -> 1..MaxSessions] :
                            \A i, j \in 1..n : i # j => f[i] # f[j] } } :
            n \in 0..MaxSessions }

RECURSIVE CountMessages(_)
CountMessages(ss) ==
    IF ss = <<>> THEN 0 ELSE Len(Head(ss).messages) + CountMessages(Tail(ss))

RECURSIVE CountPieces(_)
CountPieces(ms) ==
    IF ms = <<>> THEN 0 ELSE Len(Head(ms).content) + CountPieces(Tail(ms))

RECURSIVE CountAllPieces(_)
CountAllPieces(ss) ==
    IF ss = <<>> THEN 0
    ELSE CountPieces(Head(ss).messages) + CountAllPieces(Tail(ss))

StoreOpsInit ==
    /\ sessions \in FreshSessionLists
    /\ currentSessionId =
            IF Len(sessions) = 0 THEN NoSession ELSE Head(sessions).id
    /\ apiKey = FALSE
    /\ sessionsCreated = MaxSessions
    /\ loading = FALSE
    /\ useSearch = FALSE
    /\ sends = [k \in Sends |-> IdleSend]

\* updateSessionTitle gone wrong: every session gets the title.
updateSessionTitle_Everywhere(ss, sessionId, title) ==
    [i \in DOMAIN ss |-> [ss[i] EXCEPT !.title = title]]

\* memory.ts 665-671: the sessions after updateSessionTitle(sessionId, title)
updateSessionTitle(ss, sessionId, title) ==
    [i \in DOMAIN ss |->
        IF ss[i].id = sessionId THEN [ss[i] EXCEPT !.title = title] ELSE ss[i]]

\* memory.ts 632-646: a call of addMessage with any session id
AddMessageCall(sessionId, role) ==
    /\ CountMessages(sessions) < MaxMessages
    /\ sessions' = addMessage(sessions, sessionId,
            [id |-> <<0, CountMessages(sessions) + 1>>, role |-> role,
             content |-> <<>>])
    /\ UNCHANGED <<currentSessionId, apiKey, sessionsCreated, loading,
                   useSearch, sends>>
    /\ UNCHANGED notChat

\* memory.ts 648-663: a call of updateLastMessage with any session id
UpdateLastMessageCall(sessionId) ==
    /\ CountAllPieces(sessions) < MaxChunks
    /\ sessions' = updateLastMessage(sessions, sessionId, Piece(0, "chunk"))
    /\ UNCHANGED <<currentSessionId, apiKey, sessionsCreated, loading,
                   useSearch, sends>>
    /\ UNCHANGED notChat

\* memory.ts 665-671: a call of updateSessionTitle with any session id
UpdateSessionTitleCall(sessionId, title) ==
    /\ sessions' = updateSessionTitle(sessions, sessionId, title)
    /\ UNCHANGED <<currentSessionId, apiKey, sessionsCreated, loading,
                   useSearch, sends>>
    /\ UNCHANGED notChat

StoreOpsNext ==
    \E sessionId \in 1..MaxSessions :
        \/ \E role \in {"user", "assistant"} : AddMessageCall(sessionId, role)
        \/ UpdateLastMessageCall(sessionId)
        \/ \E title \in Titles : UpdateSessionTitleCall(sessionId, title)

(***************************************************************************)
(* The device-code sign-in (part_000, CopilotAuth), for one modal: the     *)
(* page shows it once. A polling chain is a pending timer of checkToken or *)
(* a token request of checkToken in flight. No effect is cleaned up when   *)
(* the component unmounts (lines 87-89), so timers and requests live on;   *)
(* the component's own state is set only while it is mounted.              *)
(***************************************************************************)
AuthInit ==
    /\ modal = "hidden"
    /\ deviceRequests = 0
    /\ authError = FALSE
    /\ polling = FALSE
    /\ timers = 0
    /\ tokenRequests = 0
    /\ pollsMade = 0
    /\ keysStored = 0
    /\ closeCalls = 0

Mounted == modal = "open"

\* part_000 16-20: initiateAuth up to its fetch of the device code
initiateAuth ==
    /\ authError' = (IF Mounted THEN FALSE ELSE authError)
    /\ deviceRequests' = deviceRequests + 1

\* memory.ts 174, 395, 578 and part_000 87-89: the modal is shown, and its
\* mount effect calls initiateAuth
OpenAuthModal ==
    /\ modal = "hidden"
    /\ modal' = "open"
    /\ authError' = FALSE
    /\ deviceRequests' = deviceRequests + 1
    /\ UNCHANGED <<polling, timers, tokenRequests, pollsMade, keysStored,
                   closeCalls, apiKey>>
    /\ UNCHANGED notAuth

\* part_000 101-105: the Retry button, shown with the error
Retry ==
    /\ Mounted
    /\ authError
    /\ initiateAuth
    /\ UNCHANGED <<modal, polling, timers, tokenRequests, pollsMade,
                   keysStored, closeCalls, apiKey>>
    /\ UNCHANGED notAuth

\* part_000 34-48, 83: the device code arrived; startPolling sets the first
\* timer
DeviceCodeResolves ==
    /\ deviceRequests > 0
    /\ deviceRequests' = deviceRequests - 1
    /\ polling' = (IF Mounted THEN TRUE ELSE polling)
    /\ timers' = timers + 1
    /\ UNCHANGED <<modal, authError, tokenRequests, pollsMade, keysStored,
                   closeCalls, apiKey>>
    /\ UNCHANGED notAuth

\* part_000 20, 32, 39-43: the device-code request failed
DeviceCodeFails ==
    /\ deviceRequests > 0
    /\ deviceRequests' = deviceRequests - 1
    /\ authError' = (IF Mounted THEN TRUE ELSE authError)
    /\ UNCHANGED <<modal, polling, timers, tokenRequests, pollsMade,
                   keysStored, closeCalls, apiKey>>
    /\ UNCHANGED notAuth

\* part_000 50-63: a timer fires and checkToken requests the token
TimerFires ==
    /\ timers > 0
    /\ pollsMade < MaxPolls
    /\ timers' = timers - 1
    /\ tokenRequests' = tokenRequests + 1
    /\ pollsMade' = pollsMade + 1
    /\ UNCHANGED <<modal, deviceRequests, authError, polling, keysStored,
                   closeCalls, apiKey>>
    /\ UNCHANGED notAuth

\* part_000 65-70 and memory.ts 578, 615: the answer holds an access token
TokenGranted ==
    /\ tokenRequests > 0
    /\ tokenRequests' = tokenRequests - 1
    /\ apiKey' = TRUE
    /\ keysStored' = keysStored + 1
    /\ polling' = (IF Mounted THEN FALSE ELSE polling)
    /\ closeCalls' = closeCalls + 1
    /\ modal' = (IF Mounted THEN "closedOnSuccess" ELSE modal)
    /\ UNCHANGED <<deviceRequests, authError, timers, pollsMade>>
    /\ UNCHANGED notAuth

\* part_000 71-72: the answer is 'authorization_pending'
TokenPending ==
    /\ tokenRequests > 0
    /\ tokenRequests' = tokenRequests - 1
    /\ timers' = timers + 1
    /\ UNCHANGED <<modal, deviceRequests, authError, polling, pollsMade,
                   keysStored, closeCalls, apiKey>>
    /\ UNCHANGED notAuth

\* TokenDenied gone wrong: the error is shown and the next poll is set.
TokenDenied_StillPolls ==
    /\ tokenRequests > 0
    /\ tokenRequests' = tokenRequests - 1
    /\ timers' = timers + 1
    /\ authError' = (IF Mounted THEN TRUE ELSE authError)
    /\ polling' = (IF Mounted THEN FALSE ELSE polling)
    /\ UNCHANGED <<modal, deviceRequests, pollsMade, keysStored, closeCalls,
                   apiKey>>
    /\ UNCHANGED notAuth

\* part_000 73-76: the answer holds another error
TokenDenied ==
    /\ tokenRequests > 0
    /\ tokenRequests' = tokenRequests - 1
    /\ authError' = (IF Mounted THEN TRUE ELSE authError)
    /\ polling' = (IF Mounted THEN FALSE ELSE polling)
    /\ UNCHANGED <<modal, deviceRequests, timers, pollsMade, keysStored,
                   closeCalls, apiKey>>
    /\ UNCHANGED notAuth

\* part_000 52, 65, 77-80: the request failed or its body is no JSON
TokenRequestFails ==
    /\ tokenRequests > 0
    /\ tokenRequests' = tokenRequests - 1
    /\ timers' = timers + 1
    /\ UNCHANGED <<modal, deviceRequests, authError, polling, pollsMade,
                   keysStored, closeCalls, apiKey>>
    /\ UNCHANGED notAuth

\* part_000 135-136 and memory.ts 578: the user closes the modal
UserCloses ==
    /\ Mounted
    /\ modal' = "closedByUser"
    /\ closeCalls' = closeCalls + 1
    /\ UNCHANGED <<deviceRequests, authError, polling, timers, tokenRequests,
                   pollsMade, keysStored, apiKey>>
    /\ UNCHANGED notAuth

AuthNext ==
    \/ OpenAuthModal
    \/ Retry
    \/ DeviceCodeResolves
    \/ DeviceCodeFails
    \/ TimerFires
    \/ TokenGranted
    \/ TokenPending
    \/ TokenDenied
    \/ TokenRequestFails
    \/ UserCloses

(***************************************************************************)
(* The reader of the reply stream (search.ts 261-296).                     *)
(*                                                                         *)
(* The response is a sequence of symbols: the line feed, the space, the    *)
(* text `data:`, the text `[DONE]`, a JSON text with the delta content     *)
(* "a", "b" or "", and a text that is no JSON. A read gives any non-empty  *)
(* run of the symbols not yet read, and the decoder gives them as they     *)
(* are.                                                                    *)
(***************************************************************************)
NewLine == "\n"

Space == " "

DataField == "data:"

Done == "[DONE]"

JsonTexts == {"{a}", "{b}", "{}"}

\* search.ts 286-287: json.choices[0]?.delta?.content || ""
DeltaContent(json) ==
    CASE json = "{a}" -> "a"
      [] json = "{b}" -> "b"
      [] OTHER -> ""

\* The lines a response is made of
LineKinds ==
    { <<DataField, Space, "{a}">>,
      <<DataField, Space, "{b}">>,
      <<Space, DataField, Space, "{a}", Space>>,
      <<DataField, Space, Done>>,
      <<DataField, Space, "{}">>,
      <<DataField, Space, "garbage">>,
      <<DataField, "{a}">>,
      <<>> }

RECURSIVE JoinLines(_)
JoinLines(lines) ==
    IF lines = <<>> THEN <<>>
    ELSE Head(lines) \o <<NewLine>> \o JoinLines(Tail(lines))

\* The responses: up to MaxLines lines, the last one ended or cut
Responses ==
    UNION { UNION { {JoinLines(lines), SubSeq(JoinLines(lines), 1, Len(JoinLines(lines)) - 1)} :
                        lines \in [1..n -> LineKinds] } : n \in 1..MaxLines }

\* String.prototype.split('\n'), search.ts 272
RECURSIVE SplitLines(_, _)
SplitLines(text, line) ==
    IF text = <<>> THEN <<line>>
    ELSE IF Head(text) = NewLine
         THEN <<line>> \o SplitLines(Tail(text), <<>>)
         ELSE SplitLines(Tail(text), Append(line, Head(text)))

RECURSIVE TrimStart(_)
TrimStart(text) ==
    IF text # <<>> /\ Head(text) = Space THEN TrimStart(Tail(text)) ELSE text

RECURSIVE TrimEnd(_)
TrimEnd(text) ==
    IF text # <<>> /\ text[Len(text)] = Space
    THEN TrimEnd(SubSeq(text, 1, Len(text) - 1))
    ELSE text

\* String.prototype.trim, search.ts 278
Trim(text) == TrimEnd(TrimStart(text))

\* search.ts 279: trimmed.startsWith('data: ')
StartsWithData(trimmed) ==
    /\ Len(trimmed) >= 2
    /\ trimmed[1] = DataField
    /\ trimmed[2] = Space

\* search.ts 277-295: the onChunk calls one line makes; JSON.parse reads a
\* JSON text with spaces around it and throws on anything else
LineChunks(line) ==
    LET trimmed == Trim(line)
        data == SubSeq(trimmed, 3, Len(trimmed))
    IN  IF ~StartsWithData(trimmed) THEN <<>>
        ELSE IF data = <<Done>> THEN <<>>
        ELSE IF Len(Trim(data)) = 1 /\ Trim(data)[1] \in JsonTexts
                /\ DeltaContent(Trim(data)[1]) # ""
             THEN <<DeltaContent(Trim(data)[1])>>
             ELSE <<>>

RECURSIVE ChunksOfLines(_)
ChunksOfLines(lines) ==
    IF lines = <<>> THEN <<>>
    ELSE LineChunks(Head(lines)) \o ChunksOfLines(Tail(lines))

SseQuiet == sseCall = [pc |-> "none"]

SearchQuiet == searchCall = [pc |-> "none"]

NetQuiet == SseQuiet /\ SearchQuiet

\* search.ts 261-267: the response is there and the buffer is empty
SseInit ==
    sseCall \in { [pc |-> "reading", whole |-> r, rest |-> r, buffer |-> <<>>,
                   chunks |-> <<>>] : r \in Responses }

\* ReadResolves gone wrong: the line left unfinished by a read is dropped.
ReadResolves_DropsPartial(n) ==
    /\ sseCall.pc = "reading"
    /\ n \in 1..Len(sseCall.rest)
    /\ LET lines == SplitLines(sseCall.buffer \o SubSeq(sseCall.rest, 1, n), <<>>)
       IN  sseCall' = [sseCall EXCEPT
                !.rest = SubSeq(@, n + 1, Len(@)),
                !.buffer = <<>>,
                !.chunks = @ \o ChunksOfLines(SubSeq(lines, 1, Len(lines) - 1))]
    /\ UNCHANGED searchCall
    /\ UNCHANGED notNet

\* search.ts 268-295: a read gives the next n symbols
ReadResolves(n) ==
    /\ sseCall.pc = "reading"
    /\ n \in 1..Len(sseCall.rest)
    /\ LET lines == SplitLines(sseCall.buffer \o SubSeq(sseCall.rest, 1, n), <<>>)
       IN  sseCall' = [sseCall EXCEPT
                !.rest = SubSeq(@, n + 1, Len(@)),
                !.buffer = lines[Len(lines)],
                !.chunks = @ \o ChunksOfLines(SubSeq(lines, 1, Len(lines) - 1))]
    /\ UNCHANGED searchCall
    /\ UNCHANGED notNet

\* search.ts 268-269: the read that reports the end of the response
ReadDone ==
    /\ sseCall.pc = "reading"
    /\ sseCall.rest = <<>>
    /\ sseCall' = [sseCall EXCEPT !.pc = "returned"]
    /\ UNCHANGED searchCall
    /\ UNCHANGED notNet

SseNext ==
    \/ \E n \in 1..(6 * MaxLines) : ReadResolves(n)
    \/ ReadDone

(***************************************************************************)
(* The search tool (search.ts 8-151). A result is its link and its source; *)
(* the three backends answer in any order, each with a list of results, an *)
(* empty one when its request failed (lines 23, 34-37, 48, 52-55, 103-106).*)
(***************************************************************************)
Result(link, source) == [link |-> link, source |-> source]

\* search.ts 11-38: Wikipedia gives up to srlimit pages, each with its link
WikipediaResults ==
    <<Result("wiki/1", "Wikipedia"), Result("wiki/2", "Wikipedia"),
      Result("wiki/3", "Wikipedia")>>

\* search.ts 44-56: the links the scraper may give, some of them given by
\* the other backends too
DdgLinks == {"wiki/1", "ddg/1", "ddg/2", "open-meteo"}

DdgResults ==
    UNION { { [i \in 1..n |-> Result(links[i], "DuckDuckGo")] :
                links \in [1..n -> DdgLinks] } : n \in 0..MaxDdg }

\* search.ts 62-107: nothing, or the one weather result
WeatherResults == {<<>>, <<Result("open-meteo", "Open-Meteo")>>}

\* search.ts 112-123: performSearch has started the three requests
SearchInit ==
    searchCall = [pc |-> "waiting", settled |-> {}, wikipedia |-> <<>>,
                  ddg |-> <<>>, weather |-> <<>>]

\* search.ts 11-38
WikipediaSettles ==
    /\ searchCall.pc = "waiting"
    /\ "wikipedia" \notin searchCall.settled
    /\ \E n \in 0..WikiLimit :
        searchCall' = [searchCall EXCEPT
            !.settled = @ \cup {"wikipedia"},
            !.wikipedia = SubSeq(WikipediaResults, 1, n)]
    /\ UNCHANGED sseCall
    /\ UNCHANGED notNet

\* search.ts 44-56
DuckDuckGoSettles ==
    /\ searchCall.pc = "waiting"
    /\ "ddg" \notin searchCall.settled
    /\ \E results \in DdgResults :
        searchCall' = [searchCall EXCEPT
            !.settled = @ \cup {"ddg"}, !.ddg = results]
    /\ UNCHANGED sseCall
    /\ UNCHANGED notNet

\* search.ts 62-107
WeatherSettles ==
    /\ searchCall.pc = "waiting"
    /\ "weather" \notin searchCall.settled
    /\ \E results \in WeatherResults :
        searchCall' = [searchCall EXCEPT
            !.settled = @ \cup {"weather"}, !.weather = results]
    /\ UNCHANGED sseCall
    /\ UNCHANGED notNet

\* Unique gone wrong: every result is kept.
Unique_KeepsAll(results, seenLinks) == results

\* search.ts 131-139: the results whose link was not seen before
RECURSIVE Unique(_, _)
Unique(results, seenLinks) ==
    IF results = <<>> THEN <<>>
    ELSE IF Head(results).link \in seenLinks
         THEN Unique(Tail(results), seenLinks)
         ELSE <<Head(results)>>
                \o Unique(Tail(results), seenLinks \cup {Head(results).link})

\* search.ts 125-150: what performSearch resolves to, its text known by its
\* kind and by the results it lists
performSearch(wikipedia, ddg, weather) ==
    LET allResults == wikipedia \o ddg \o weather
        uniqueResults == Unique(allResults, {})
    IN  IF Len(allResults) = 0
        THEN [text |-> "No specific results found", results |-> <<>>]
        ELSE [text |-> "SEARCH RESULTS",
              results |-> SubSeq(uniqueResults, 1,
                    IF Len(uniqueResults) < MaxFormatted
                    THEN Len(uniqueResults) ELSE MaxFormatted)]

\* search.ts 125-150: the three requests have settled
PerformSearchReturns ==
    /\ searchCall.pc = "waiting"
    /\ searchCall.settled = {"wikipedia", "ddg", "weather"}
    /\ searchCall' = [pc |-> "returned", settled |-> searchCall.settled,
                      wikipedia |-> searchCall.wikipedia, ddg |-> searchCall.ddg,
                      weather |-> searchCall.weather,
                      output |-> performSearch(searchCall.wikipedia,
                                               searchCall.ddg, searchCall.weather)]
    /\ UNCHANGED sseCall
    /\ UNCHANGED notNet

SearchNext ==
    \/ WikipediaSettles
    \/ DuckDuckGoSettles
    \/ WeatherSettles
    \/ PerformSearchReturns

(***************************************************************************)
(* Claims about the chat.                                                  *)
(***************************************************************************)
\* The messages of all sessions
AllMessages ==
    UNION { {sessions[i].messages[j] : j \in DOMAIN sessions[i].messages} :
                i \in DOMAIN sessions }

\* C28: every streamed chunk is in the assistant placeholder that the run of
\* handleSendMessage it was streamed for created, and in no other message,
\* also when a second send is started in the same session before the first
\* has finished.
C28_ChunksInOwnPlaceholder ==
    \A m \in AllMessages : \A p \in DOMAIN m.content :
        m.content[p].kind = "chunk" =>
            m.id = sends[m.content[p].by].placeholder

\* Run k fails in the step, at the retrieval or at a reply stream.
FailsBeforeSave(k) ==
    /\ sends[k].pc \in {"retrieving", "streaming", "followUp"}
    /\ sends'[k].pc = "caught"

\* The session of run k ends with the system error message of run k.
ErrorShown(ss, k) ==
    \E i \in DOMAIN ss :
        /\ ss[i].id = sends[k].sessionId
        /\ Len(ss[i].messages) > 0
        /\ ss[i].messages[Len(ss[i].messages)].role = "system"
        /\ ss[i].messages[Len(ss[i].messages)].content = <<Piece(k, "error")>>

\* The order of the steps of run k: the reply is requested in the step that
\* takes the result of the retrieval; saveMemory is called at most once, by
\* the step that follows the compression, which is requested when the reply
\* stream has ended without a search or the follow-up stream has ended;
\* a run that fails before has not called saveMemory, resets the loading
\* flag and is over.
OrderedSteps(k) ==
    /\ sends'[k].pc = "streaming" /\ sends[k].pc # "streaming" =>
            sends[k].pc = "retrieving"
    /\ sends'[k].pc = "compressing" /\ sends[k].pc # "compressing" =>
            sends[k].pc \in {"streaming", "followUp"}
    /\ sends'[k].pc = "followUp" /\ sends[k].pc # "followUp" =>
            sends[k].pc = "searching"
    /\ sends'[k].saveCalls # sends[k].saveCalls =>
            /\ sends[k].pc = "compressing"
            /\ sends[k].saveCalls = 0
            /\ sends'[k].saveCalls = 1
    /\ FailsBeforeSave(k) => sends'[k].saveCalls = 0 /\ loading' = FALSE
    /\ sends[k].pc = "caught" => sends'[k] = sends[k]

\* C29: within one handleSendMessage the retrieval completes before the
\* reply is requested, and saveMemory is called at most once and only after
\* the reply stream and the follow-up stream, if any, have completed; if the
\* retrieval or a stream fails, saveMemory is not called for the turn, the
\* loading flag is reset to false and, when the session of the send is still
\* in the store, a system error message is added to it.
C29_OrderedSteps ==
    [][\A k \in Sends :
        /\ OrderedSteps(k)
        /\ FailsBeforeSave(k) /\ sends[k].sessionId \in SessionIds(sessions) =>
                ErrorShown(sessions', k)]_vars

\* C29 witness: a run has failed before saveMemory, the loading flag is off
\* and the session ends with the run's system error message.
C29_Witness ==
    \E k \in Sends :
        /\ sends[k].pc = "caught"
        /\ sends[k].saveCalls = 0
        /\ ~loading
        /\ ErrorShown(sessions, k)

\* C29 as stated: whenever the retrieval or a stream fails, a system error
\* message is added to the session, whether the session is still there or
\* not.
C29_ErrorAlwaysAdded ==
    [][\A k \in Sends :
        /\ OrderedSteps(k)
        /\ FailsBeforeSave(k) => ErrorShown(sessions', k)]_vars

\* The step removes session id, which is the current one.
DeletesCurrent(id) ==
    /\ currentSessionId = id
    /\ id \in SessionIds(sessions)
    /\ id \notin SessionIds(sessions')

\* C30: currentSessionId is null or the id of a session in sessions, and a
\* step that deletes the current session moves it to another session of the
\* store, or to null when none is left.
C30_CurrentSessionPresent ==
    /\ [](currentSessionId = NoSession \/ currentSessionId \in SessionIds(sessions))
    /\ [][\A id \in 1..MaxSessions : DeletesCurrent(id) =>
            IF Len(sessions') = 0
            THEN currentSessionId' = NoSession
            ELSE currentSessionId' \in SessionIds(sessions') \ {id}]_vars

\* C30 witness: every session that was created has been deleted, the last of
\* them while it was the current one, and currentSessionId is null.
C30_Witness ==
    /\ sessionsCreated = MaxSessions
    /\ Len(sessions) = 0
    /\ currentSessionId = NoSession

\* Between the two states only the session of the given id may differ.
OnlySession(sessionId) ==
    /\ currentSessionId' = currentSessionId
    /\ Len(sessions') = Len(sessions)
    /\ \A i \in DOMAIN sessions :
        /\ sessions'[i].id = sessions[i].id
        /\ sessions[i].id # sessionId => sessions'[i] = sessions[i]
    /\ sessionId \notin SessionIds(sessions) => sessions' = sessions

\* The session at i got one message more, at the end.
Appended(i) ==
    /\ sessions'[i].title = sessions[i].title
    /\ Len(sessions'[i].messages) = Len(sessions[i].messages) + 1
    /\ SubSeq(sessions'[i].messages, 1, Len(sessions[i].messages)) =
            sessions[i].messages

\* In the session at i only the content of the last message changed, by one
\* text put at its end (nothing changed when the session has no message).
LastExtended(i) ==
    /\ sessions'[i].title = sessions[i].title
    /\ Len(sessions'[i].messages) = Len(sessions[i].messages)
    /\ \A j \in DOMAIN sessions[i].messages :
        IF j = Len(sessions[i].messages)
        THEN /\ sessions'[i].messages[j].id = sessions[i].messages[j].id
             /\ sessions'[i].messages[j].role = sessions[i].messages[j].role
             /\ Len(sessions'[i].messages[j].content) =
                    Len(sessions[i].messages[j].content) + 1
             /\ SubSeq(sessions'[i].messages[j].content, 1,
                       Len(sessions[i].messages[j].content)) =
                    sessions[i].messages[j].content
        ELSE sessions'[i].messages[j] = sessions[i].messages[j]

\* C31: addMessage, updateLastMessage and updateSessionTitle change only the
\* session of the given id (addMessage by one message at the end,
\* updateLastMessage only the content of the last message, by appending,
\* updateSessionTitle only the title) and leave every other session, every
\* other message and currentSessionId as they were; with the id of no
\* session of the store they change nothing.
C31_FrameEffects ==
    [][\A sessionId \in 1..MaxSessions :
        /\ \A role \in {"user", "assistant"} :
            AddMessageCall(sessionId, role) =>
                /\ OnlySession(sessionId)
                /\ \A i \in DOMAIN sessions :
                    sessions[i].id = sessionId => Appended(i)
        /\ UpdateLastMessageCall(sessionId) =>
                /\ OnlySession(sessionId)
                /\ \A i \in DOMAIN sessions :
                    sessions[i].id = sessionId => LastExtended(i)
        /\ \A title \in Titles :
            UpdateSessionTitleCall(sessionId, title) =>
                /\ OnlySession(sessionId)
                /\ \A i \in DOMAIN sessions :
                    sessions[i].id = sessionId =>
                        /\ sessions'[i].title = title
                        /\ sessions'[i].messages = sessions[i].messages]_vars

\* C31 witness: after the calls one session has a new title and a message
\* with a text put into it, beside a session that is as createSession made
\* it.
C31_Witness ==
    \E i \in DOMAIN sessions, j \in DOMAIN sessions :
        /\ i # j
        /\ sessions[i].title = "Trip"
        /\ Len(sessions[i].messages) > 0
        /\ sessions[i].messages[Len(sessions[i].messages)].content # <<>>
        /\ sessions[j].title = DefaultTitle
        /\ sessions[j].messages = <<>>

(***************************************************************************)
(* Claims about the device-code sign-in.                                   *)
(***************************************************************************)
\* The polling chains that are active
ActiveChains == timers + tokenRequests

\* The step takes the answer of a token request.
TokenAnswered == tokenRequests' = tokenRequests - 1

\* C32: polling stops on a terminal answer. Once a token request has
\* returned an access token the key has been stored once, the modal is
\* closed and no timer and no token request is left; while the error of a
\* refused request is shown no timer and no token request is left; the step
\* that takes any other answer ('authorization_pending', a failed request)
\* sets exactly one timer; and only the step that takes an access token
\* stores a key.
C32_PollingStops ==
    /\ [](/\ keysStored <= 1
          /\ keysStored = 1 => ActiveChains = 0 /\ ~Mounted /\ apiKey
          /\ authError => ActiveChains = 0)
    /\ [][TokenAnswered =>
            \/ keysStored' = keysStored + 1 /\ timers' = timers
            \/ /\ keysStored' = keysStored
               /\ Mounted => authError'
               /\ Mounted => ~polling'
               /\ timers' = timers
            \/ /\ keysStored' = keysStored
               /\ authError' = authError
               /\ timers' = timers + 1]_vars

\* C32 witness: after two answers that kept the chain going the third gave
\* the access token; the key is stored, the modal closed and the chain over.
C32_Witness ==
    /\ pollsMade = 3
    /\ keysStored = 1
    /\ modal = "closedOnSuccess"
    /\ ActiveChains = 0

\* C33: for one modal at most one polling chain is active at any time,
\* also after Retry, and once the user has closed the modal no step stores
\* an API key or calls onClose again.
C33_OneChainNoneAfterClose ==
    /\ [](ActiveChains <= 1)
    /\ [][modal = "closedByUser" =>
            /\ keysStored' = keysStored
            /\ apiKey' = apiKey
            /\ closeCalls' = closeCalls]_vars

(***************************************************************************)
(* Claims about the network helpers.                                       *)
(***************************************************************************)
\* The lines of a text that are ended by a line feed
CompleteLines(text) ==
    SubSeq(SplitLines(text, <<>>), 1, Len(SplitLines(text, <<>>)) - 1)

\* C34: the onChunk calls of streamCopilotResponse depend only on the
\* response, not on how the reads split it: when the call returns, the
\* chunks delivered are the non-empty delta contents of the complete lines
\* of the whole response, each once and in the order of the stream, and
\* before that they are those of the part read so far.
C34_SplitIndependent ==
    sseCall.pc \in {"reading", "returned"} =>
        /\ sseCall.chunks =
                ChunksOfLines(CompleteLines(
                    SubSeq(sseCall.whole, 1, Len(sseCall.whole) - Len(sseCall.rest))))
        /\ sseCall.pc = "returned" =>
                sseCall.chunks = ChunksOfLines(CompleteLines(sseCall.whole))

\* C34 witness: the call returned with the chunks "a" and "b", in this
\* order, from the response of two data lines, however the reads cut it.
C34_Witness ==
    /\ sseCall.pc = "returned"
    /\ sseCall.chunks = <<"a", "b">>
    /\ sseCall.whole = <<DataField, Space, "{a}", NewLine, DataField, Space, "{b}", NewLine>>

\* The results of the three backends, Wikipedia's first
Concatenated == searchCall.wikipedia \o searchCall.ddg \o searchCall.weather

\* The places of the results whose link no earlier result has
FirstOccurrences ==
    {i \in DOMAIN Concatenated :
        \A j \in 1..(i - 1) : Concatenated[j].link # Concatenated[i].link}

\* C35: performSearch lists at most 5 results, no two with the same link:
\* the first occurrences of the links in the results of Wikipedia, then
\* DuckDuckGo, then the weather, in that order, the first 5 of them; and
\* when the backends gave nothing it resolves to the 'No specific results
\* found' text.
C35_FirstFiveUnique ==
    searchCall.pc = "returned" =>
        LET results == searchCall.output.results
        IN  /\ Len(results) <= MaxFormatted
            /\ \A i, j \in DOMAIN results :
                    i # j => results[i].link # results[j].link
            /\ Len(results) =
                    IF Cardinality(FirstOccurrences) < MaxFormatted
                    THEN Cardinality(FirstOccurrences) ELSE MaxFormatted
            /\ \A k \in DOMAIN results :
                    \E i \in FirstOccurrences :
                        /\ Cardinality({j \in FirstOccurrences : j <= i}) = k
                        /\ results[k] = Concatenated[i]
            /\ (searchCall.output.text = "No specific results found")
                    = (Len(Concatenated) = 0)

\* C35 witness: the backends gave six links, one of them twice, and the
\* call returned the first five.
C35_Witness ==
    /\ searchCall.pc = "returned"
    /\ Len(searchCall.output.results) = MaxFormatted
    /\ Cardinality(FirstOccurrences) > MaxFormatted
    /\ Len(Concatenated) > Cardinality(FirstOccurrences)

(***************************************************************************)
(* Specifications: one per component, the other components at rest.       *)
(***************************************************************************)
InitKey ==
    /\ KeyInit /\ WorkerInit /\ CallerInit /\ CryptoInit /\ StoreInit
    /\ KeywordQuiet /\ ChatInit /\ AuthInit
    /\ NetQuiet

SpecKey == InitKey /\ [][KeyNext]_vars

InitWorker ==
    /\ KeyQuiet /\ WorkerInit /\ CallerInit /\ CryptoInit /\ StoreInit
    /\ KeywordQuiet /\ ChatInit /\ AuthInit
    /\ NetQuiet

SpecWorker == InitWorker /\ [][EmbedNext]_vars

\* The worker on its own: requests arrive, nobody reads the replies.
WorkerAloneNext ==
    \/ WorkerNext
    \/ \E text \in EmbedTexts : EmbedRequest(text)

\* The worker's event loop delivers every posted message, and the promises
\* of pipeline() and of the extractor settle.
FairSpecWorker ==
    /\ InitWorker /\ [][WorkerAloneNext]_vars
    /\ WF_vars(WorkerOnMessage)
    /\ \A id \in RequestIds :
        WF_vars(WorkerLoaded(id)) /\ WF_vars(WorkerInferred(id))

InitCrypto ==
    /\ KeyQuiet /\ WorkerInit /\ CallerInit /\ CryptoInit /\ StoreInit
    /\ KeywordQuiet /\ ChatInit /\ AuthInit
    /\ NetQuiet

SpecCrypto == InitCrypto /\ [][CryptoNext]_vars

InitStore ==
    /\ KeyQuiet /\ WorkerInit /\ CallerInit /\ CryptoInit /\ StoreInit
    /\ KeywordQuiet /\ ChatInit /\ AuthInit
    /\ NetQuiet

SpecStore == InitStore /\ [][StoreNext]_vars

InitKeywords ==
    /\ KeyQuiet /\ WorkerInit /\ CallerInit /\ CryptoInit /\ StoreInit
    /\ KeywordInit /\ ChatInit /\ AuthInit
    /\ NetQuiet

SpecKeywords == InitKeywords /\ [][KeywordNext]_vars

InitStored ==
    /\ KeyQuiet /\ WorkerInit /\ CallerInit /\ CryptoInit /\ StoredInit
    /\ KeywordQuiet /\ ChatInit /\ AuthInit
    /\ NetQuiet

SpecStored == InitStored /\ [][StoredNext]_vars

InitListing ==
    /\ KeyQuiet /\ WorkerInit /\ CallerInit /\ CryptoInit /\ ListingInit
    /\ KeywordQuiet /\ ChatInit /\ AuthInit
    /\ NetQuiet

SpecListing == InitListing /\ [][ListingNext]_vars

InitVisibility ==
    /\ KeyQuiet /\ WorkerInit /\ CallerInit /\ CryptoInit /\ VisibilityInit
    /\ KeywordQuiet /\ ChatInit /\ AuthInit
    /\ NetQuiet

SpecVisibility == InitVisibility /\ [][VisibilityNext]_vars

InitRanked ==
    /\ KeyQuiet /\ WorkerInit /\ CallerInit /\ CryptoInit /\ RankedInit
    /\ KeywordQuiet /\ ChatInit /\ AuthInit
    /\ NetQuiet

SpecRanked == InitRanked /\ [][RankedNext]_vars

InitChat ==
    /\ KeyQuiet /\ WorkerInit /\ CallerInit /\ CryptoInit /\ StoreInit
    /\ KeywordQuiet /\ ChatInit /\ AuthInit
    /\ NetQuiet

SpecChat == InitChat /\ [][ChatNext]_vars

SpecTwoSends == InitChat /\ [][TwoSendsNext]_vars

InitAuth ==
    /\ KeyQuiet /\ WorkerInit /\ CallerInit /\ CryptoInit /\ StoreInit
    /\ KeywordQuiet /\ ChatInit /\ AuthInit
    /\ NetQuiet

SpecAuth == InitAuth /\ [][AuthNext]_vars

InitSse ==
    /\ KeyQuiet /\ WorkerInit /\ CallerInit /\ CryptoInit /\ StoreInit
    /\ KeywordQuiet /\ ChatInit /\ AuthInit
    /\ SseInit /\ SearchQuiet

SpecSse == InitSse /\ [][SseNext]_vars

InitSearch ==
    /\ KeyQuiet /\ WorkerInit /\ CallerInit /\ CryptoInit /\ StoreInit
    /\ KeywordQuiet /\ ChatInit /\ AuthInit
    /\ SseQuiet /\ SearchInit

SpecSearch == InitSearch /\ [][SearchNext]_vars

InitStoreOps ==
    /\ KeyQuiet /\ WorkerInit /\ CallerInit /\ CryptoInit /\ StoreInit
    /\ KeywordQuiet /\ StoreOpsInit /\ AuthInit
    /\ NetQuiet

SpecStoreOps == InitStoreOps /\ [][StoreOpsNext]_vars

(***************************************************************************)
(* The store beside the embedding worker: one saveMemory call and one      *)
(* retrieveRelevantMemory call run while the worker serves requests (its   *)
(* progress messages left out).                                            *)
(***************************************************************************)
EmbedStoreNext ==
    \/ EmbedRequest("sushi")
    \/ WorkerOnMessage
    \/ \E id \in RequestIds : WorkerLoaded(id) \/ WorkerInferred(id)
    \/ saveMemory(1, NoteHiking, DefaultImportance)
    \/ retrieveRelevantMemory(2, QueryHiking)
    \/ \E c \in {1, 2} :
        \/ GetDBRejects(c)
        \/ SaveBuildsEntry(c)
        \/ RetrieveRequests(c)
        \/ SaveTransaction(c)
        \/ RetrieveTransaction(c)

SpecEmbedStore == InitStore /\ [][EmbedStoreNext]_vars

====
